---- MODULE Spec2Model ----
(***************************************************************************)
(* SCD Type 2 reconciliation of wiradp/web-scrape (src/src/etl.py).        *)
(*                                                                         *)
(* The three SQLite tables the ETL owns (products_current,                 *)
(* products_history, changes_log) and the run ledger (etl_runs) are the    *)
(* shared state.  An ETL execution (run_etl) is a process p that walks     *)
(* through scd2_apply one SQL statement at a time: every statement of the  *)
(* code that is followed by its own commit is one action.                  *)
(***************************************************************************)
EXTENDS Integers, Sequences, FiniteSets, TLC

\* ------------------------------------------------------------------------
\* Bounds of the model
\* ------------------------------------------------------------------------
\* ETL executions started in one behaviour of Spec.
MaxRuns == 3
\* Raw records in one scrape of SpecSnapshot.
MaxRaw == 3
\* ETL executions started in one behaviour of SpecFault.
MaxFaultRuns == 2
\* Storage write failures injected in one behaviour of SpecFault.
MaxFaults == 2
\* Words in one product name handed to the extractors in SpecExtract.
MaxWords == 3
\* Invocations of main.py in one behaviour of SpecPipeline.
MaxPipelines == 2

\* SQL NULL / Python None (valid_to of an open version, run_id of a fresh
\* change-log entry).  Timestamps and run ids are >= 1.
NULL == 0

\* OS processes that may execute run_etl.
Procs == {1, 2}

\* ------------------------------------------------------------------------
\* Text: a string is a sequence of atoms; an atom is one character or one
\* whole word (a run of letters and digits with no blank and no punctuation
\* inside, which every string operation below treats as a unit)
\* ------------------------------------------------------------------------
\* The words of the product names.
Words == {"ASUS", "ROG", "Strix", "G513QY", "16GB", "12GB", "512GB", "SSD",
          "RAM", "2X", "DDR4"}

IsSpace(c) == c = " "

\* str.lower() on one atom
Lower(c) == CASE c = "A" -> "a" [] c = "B" -> "b"
              [] c = "ASUS" -> "asus" [] c = "ROG" -> "rog"
              [] c = "Strix" -> "strix" [] c = "G513QY" -> "g513qy"
              [] c = "16GB" -> "16gb" [] c = "12GB" -> "12gb"
              [] c = "512GB" -> "512gb" [] c = "SSD" -> "ssd"
              [] c = "RAM" -> "ram" [] c = "2X" -> "2x" [] c = "DDR4" -> "ddr4"
              [] OTHER -> c

IsAlnum(c) ==
    c \in {"a", "b", "A", "B", "0", "1"} \cup Words \cup {Lower(w) : w \in Words}

\* str.upper() on one atom
Upper(c) == CASE c = "a" -> "A" [] c = "b" -> "B" [] c = "Strix" -> "STRIX"
              [] c = "None" -> "NONE" [] c = "nan" -> "NAN"
              [] c = "Xeon" -> "XEON"
              [] c = "Intel UHD Graphics" -> "INTEL UHD GRAPHICS"
              [] OTHER -> c

UpperStr(s) == [i \in 1..Len(s) |-> Upper(s[i])]

LowerStr(s) == [i \in 1..Len(s) |-> Lower(s[i])]

RECURSIVE LStrip(_)
LStrip(s) == IF s = <<>> THEN <<>>
             ELSE IF IsSpace(Head(s)) THEN LStrip(Tail(s)) ELSE s

RECURSIVE RStrip(_)
RStrip(s) == IF s = <<>> THEN <<>>
             ELSE IF IsSpace(s[Len(s)]) THEN RStrip(SubSeq(s, 1, Len(s) - 1)) ELSE s

\* str.strip()
Strip(s) == RStrip(LStrip(s))

\* re.sub(r'\s+', ' ', s)
RECURSIVE CollapseWs(_)
CollapseWs(s) == IF s = <<>> THEN <<>>
                 ELSE IF IsSpace(Head(s)) THEN <<" ">> \o CollapseWs(LStrip(Tail(s)))
                 ELSE <<Head(s)>> \o CollapseWs(Tail(s))

\* re.sub(r'[^0-9a-zA-Z\s]', '', s)
RemovePunct(s) == SelectSeq(s, LAMBDA c : IsAlnum(c) \/ IsSpace(c))

\* hashlib.sha256(...).hexdigest(): an injective digest of the normalised text
sha256(s) == <<"sha256", s>>

compute_product_hash(product_name) ==
    sha256(RemovePunct(CollapseWs(Strip(LowerStr(product_name)))))

\* ------------------------------------------------------------------------
\* Feature extraction (etl_old.py)
\* ------------------------------------------------------------------------
\* A Python value handed to an extractor with its str(): a string, None, a
\* float NaN, an int.
Str(s) == [kind |-> "str", text |-> s]

None == [kind |-> "NoneType", text |-> <<"None">>]

NaN == [kind |-> "float", text |-> <<"nan">>]

Five == [kind |-> "int", text |-> <<"5">>]

\* isinstance(x, str)
isinstance_str(x) == x.kind = "str"

\* pd.isna(x)
isna(x) == x.kind \in {"NoneType", "float"}

\* How a call ends: it returns a value or an exception leaves it.
Returns(v) == [raised |-> FALSE, value |-> v]

Raised(e) == [raised |-> TRUE, value |-> e]

\* The words of a text in the order they stand, the blanks dropped.
Tokens(s) == SelectSeq(s, LAMBDA c : ~IsSpace(c))

\* First(S) is the smallest member of a set of positions.
First(S) == CHOOSE i \in S : \A j \in S : i <= j

get_brands ==
    <<"Acer", "Apple", "Asus", "Dell", "HP", "Lenovo", "MSI", "Samsung",
      "Toshiba", "Microsoft", "Sony", "ADVAN", "Zyrex", "Axioo", "Advan",
      "Xiaomi", "Avita", "Tecno", "Huawei", "Infinix", "Jumper", "SPC">>

\* brand.upper() of the brands whose spelling is not upper case already.
BrandUpper(brand) ==
    CASE brand = "Acer" -> "ACER" [] brand = "Apple" -> "APPLE"
      [] brand = "Asus" -> "ASUS" [] brand = "Dell" -> "DELL"
      [] brand = "Lenovo" -> "LENOVO" [] brand = "Samsung" -> "SAMSUNG"
      [] brand = "Toshiba" -> "TOSHIBA" [] brand = "Microsoft" -> "MICROSOFT"
      [] brand = "Sony" -> "SONY" [] brand = "Zyrex" -> "ZYREX"
      [] brand = "Axioo" -> "AXIOO" [] brand = "Advan" -> "ADVAN"
      [] brand = "Xiaomi" -> "XIAOMI" [] brand = "Avita" -> "AVITA"
      [] brand = "Tecno" -> "TECNO" [] brand = "Huawei" -> "HUAWEI"
      [] brand = "Infinix" -> "INFINIX" [] brand = "Jumper" -> "JUMPER"
      [] OTHER -> brand

\* A word that begins with a digit, as \d asks.
StartsWithDigit(tok) == tok \in {"16GB", "12GB", "512GB", "2X", "0", "1", "5"}

\* A word that begins with a letter of A-Z.
StartsWithLetter(tok) ==
    tok \in {"A", "B", "ASUS", "ROG", "STRIX", "G513QY", "SSD", "RAM", "DDR4",
             "NONE", "NAN"}

extract_brand(product_name, brand_list) ==
    IF ~isinstance_str(product_name) THEN Returns("Other")
    ELSE
        LET product_text == UpperStr(Tokens(Strip(product_name.text)))
            \* re.search(r'\bLegion\s*\d', product_text, re.IGNORECASE)
            legion == \E i \in DOMAIN product_text :
                        /\ product_text[i] = "LEGION"
                        /\ i + 1 \in DOMAIN product_text
                        /\ StartsWithDigit(product_text[i + 1])
            \* re.search(r'\b' + brand + r'\b', product_text, re.IGNORECASE)
            found == {k \in DOMAIN brand_list :
                        \E i \in DOMAIN product_text :
                            product_text[i] = BrandUpper(brand_list[k])}
        IN  IF legion THEN Returns("Lenovo")
            ELSE IF found # {} THEN Returns(brand_list[First(found)])
            ELSE Returns("Other")

\* The keywords and patterns of extract_series that occur in a word of the
\* model's names: <<word of name_lower, keyword or pattern>>.
Occurs ==
    {<<"asus", "asus">>, <<"rog", "\\brog\\b">>, <<"rog", "rog">>,
     <<"g513qy", "\\bg5\\d{2}|g7\\d{2}|gx\\d{3}|gz\\d{3}">>,
     <<"g513qy", "g513qy">>,
     <<"g513qy", "g513qy|advantage edition">>}

\* kw in name_lower, re.search(kw, name_lower)
InName(kw, name_lower) ==
    \E i \in DOMAIN name_lower : <<name_lower[i], kw>> \in Occurs

series_brands ==
    <<"advan", "acer", "asus", "apple", "avita", "axioo", "dell", "hp",
      "huawei", "infinix", "lenovo", "msi", "microsoft", "samsung", "spc",
      "tecno", "toshiba", "xiaomi", "zyrex", "jumper">>

lenovo_keywords ==
    <<"legion", "thinkpad", "thinkbook", "yoga", "ideapad", "flex",
      "v series", "v14", "v15", "loq">>

\* The ASUS rules in their order: the rule answers with its series when all
\* of `all` and one of `any` occur in the name.
asus_rules ==
    <<[all |-> {}, any |-> {"chromebook"}, series |-> "Chromebook"],
      [all |-> {}, any |-> {"zenbook"}, series |-> "Zenbook"],
      [all |-> {}, any |-> {"asus gaming"}, series |-> "Asus Gaming"],
      [all |-> {}, any |-> {"vivobook s", "\\bs\\d{3}|um\\d{3}",
                            "k413f[aeq]|k413eq"}, series |-> "Vivobook S"],
      [all |-> {"advantage edition"}, any |-> {"tuf", "fa617"},
       series |-> "TUF Gaming"],
      [all |-> {"advantage edition"}, any |-> {"rog", "g513qy"},
       series |-> "ROG Strix"],
      [all |-> {}, any |-> {"\\brog\\b", "zephyrus",
                            "\\bg5\\d{2}|g7\\d{2}|gx\\d{3}|gz\\d{3}"},
       series |-> "ROG Strix"],
      [all |-> {}, any |-> {"\\btuf\\b", "\\btu\\b",
                            "fx\\d{3}|fa\\d{3}|fx6\\d{2}|fa6\\d{2}"},
       series |-> "TUF Gaming"],
      [all |-> {}, any |-> {"creator", "proart", "pz"},
       series |-> "ProArt Studiobook"],
      [all |-> {}, any |-> {"\\bp1\\d{3}|expertbook p"},
       series |-> "ExpertBook P"],
      [all |-> {}, any |-> {"\\bbu\\d{3}|b9|expertbook b"},
       series |-> "ExpertBook B"],
      [all |-> {}, any |-> {"asus pro|pro y\\d{3}|pro p\\d{3}"},
       series |-> "Pro Series"],
      [all |-> {}, any |-> {"vivobook pro", "\\bv\\d{4}"},
       series |-> "Vivobook Pro"],
      [all |-> {}, any |-> {"vivobook go", "\\bl\\d{3,4}|e\\d{3,4}"},
       series |-> "Vivobook Go"],
      [all |-> {}, any |-> {"vivobook flip", "\\btp\\d{3}"},
       series |-> "Vivobook Flip"],
      [all |-> {}, any |-> {"vivobook"}, series |-> "Vivobook"],
      [all |-> {}, any |-> {"\\ba\\d{3,4}"}, series |-> "Vivobook (A-Series)"],
      [all |-> {}, any |-> {"\\bx\\d{3,4}"}, series |-> "X Series"],
      [all |-> {}, any |-> {"\\bm\\d{3,4}"}, series |-> "Vivobook (M-Series)"],
      [all |-> {}, any |-> {"\\be\\d{3,4}"}, series |-> "Vivobook (E-Series)"],
      [all |-> {}, any |-> {"\\bbr\\d{3}"}, series |-> "BR Series"],
      [all |-> {"advantage edition"}, any |-> {"fa617", "a16"},
       series |-> "TUF Gaming"],
      [all |-> {"advantage edition"}, any |-> {"g513qy", "g15"},
       series |-> "ROG Strix"],
      [all |-> {}, any |-> {"fa617"}, series |-> "TUF Gaming"],
      [all |-> {}, any |-> {"g513qy"}, series |-> "ROG Strix"],
      [all |-> {}, any |-> {"expertbook"}, series |-> "ExpertBook"],
      [all |-> {}, any |-> {"proart"}, series |-> "ProArt Studiobook"],
      [all |-> {}, any |-> {"advantage|fa617ns|r7x2j6s|r7x2j6t|r7x2c6t"},
       series |-> "TUF Gaming"],
      [all |-> {}, any |-> {"g513qy|advantage edition"},
       series |-> "ROG Strix"]>>

extract_series(product_name) ==
    IF ~isinstance_str(product_name) \/ Strip(product_name.text) = <<>>
    THEN Returns("Unknown")
    ELSE
        LET name_lower == LowerStr(Tokens(product_name.text))
            \* name_lower.find(b): the word the brand stands in
            pos(b) == {i \in DOMAIN name_lower : <<name_lower[i], b>> \in Occurs}
            named == {k \in DOMAIN series_brands : pos(series_brands[k]) # {}}
            earliest == {k \in named :
                            \A j \in named :
                                \/ First(pos(series_brands[k])) < First(pos(series_brands[j]))
                                \/ First(pos(series_brands[k])) = First(pos(series_brands[j]))
                                   /\ k <= j}
            found_lenovo_kw ==
                \E k \in DOMAIN lenovo_keywords : InName(lenovo_keywords[k], name_lower)
            detected_brand ==
                IF named # {} THEN series_brands[First(earliest)]
                ELSE IF found_lenovo_kw THEN "lenovo"
                ELSE "None"
            holds(r) == /\ \A kw \in r.all : InName(kw, name_lower)
                        /\ \E kw \in r.any : InName(kw, name_lower)
            hits == {k \in DOMAIN asus_rules : holds(asus_rules[k])}
        IN  IF detected_brand = "asus" /\ hits # {}
            THEN Returns(asus_rules[First(hits)].series)
            \* the branches of the other brands need a brand no word of the
            \* model's names holds
            ELSE Returns("Unknown")

extract_processor(product_name) ==
    \* name_upper = product_name.upper()
    IF ~isinstance_str(product_name) THEN Raised("AttributeError")
    \* none of the processor patterns occurs in a word of the model's names
    ELSE Returns("Unknown Processor")

\* kw in str(detail).upper(), over the keywords of the two standardize
\* functions that occur in a detail of the model: <<detail in upper case,
\* keyword>>.
InDetail(kw, detail_upper) ==
    LET DetailOccurs ==
            {<<"XEON", "XEON">>, <<"INTEL UHD GRAPHICS", "INTEL">>,
             <<"INTEL UHD GRAPHICS", "INTEL UHD">>}
    IN  \E i \in DOMAIN detail_upper : <<detail_upper[i], kw>> \in DetailOccurs

standardize_processor(processor) ==
    IF isna(processor) \/ processor = Str(<<"Unknown Processor">>)
    THEN Returns("Unknown Category")
    ELSE LET processor_upper == UpperStr(processor.text)
         IN  IF InDetail("XEON", processor_upper) THEN Returns("Intel Xeon")
             \* the keywords in between occur in no detail of the model
             ELSE IF InDetail("INTEL", processor_upper) THEN Returns("Intel Other")
             ELSE IF InDetail("AMD", processor_upper) THEN Returns("AMD Other")
             ELSE Returns("Unknown Category")

extract_gpu(gpu_name) ==
    \* name_upper = gpu_name.upper()
    IF ~isinstance_str(gpu_name) THEN Raised("AttributeError")
    \* none of the GPU patterns occurs in a word of the model's names
    ELSE Returns("Unknown Graphics")

standardize_gpu(gpu_name) ==
    IF isna(gpu_name) \/ gpu_name = Str(<<"Integrated Graphics">>)
    THEN Returns("Integrated Graphics")
    ELSE LET gpu_upper == UpperStr(gpu_name.text)
         IN  IF \E kw \in {"INTEL GRAPHICS", "INTEL UHD", "INTEL HD", "INTEL IRIS",
                             "INTEL ARC", "IRIS XE", "IRIS PLUS", "UHD GRAPHICS",
                             "HD GRAPHICS", "ARC GRAPHICS"} : InDetail(kw, gpu_upper)
             THEN Returns("Intel Integrated Graphics")
             \* the keywords in between occur in no detail of the model
             ELSE Returns("Other GPU")

\* (\d+)\s*GB within one word: the number, 0 when the word is no size.
GBOf(tok) ==
    CASE tok = "16GB" -> 16 [] tok = "12GB" -> 12 [] tok = "512GB" -> 512
      [] OTHER -> 0

\* (\d+)[X*] within one word: the multiplier, 0 when the word is none.
TimesOf(tok) == IF tok = "2X" THEN 2 ELSE 0

\* f"{n}GB"
FormatGB(n) ==
    CASE n = 1 -> "1GB" [] n = 2 -> "2GB" [] n = 4 -> "4GB" [] n = 8 -> "8GB"
      [] n = 12 -> "12GB" [] n = 16 -> "16GB" [] n = 24 -> "24GB"
      [] n = 32 -> "32GB" [] n = 64 -> "64GB" [] n = 128 -> "128GB"
      [] n = 256 -> "256GB" [] n = 512 -> "512GB" [] n = 1024 -> "1024GB"

\* Words the patterns ask for beside a size.
FreqWords == {"2133MHZ", "2400MHZ"}

DdrWords == {"DDR3", "DDR3L", "DDR4", "DDR5", "LPDDR3", "LPDDR4", "LPDDR5"}

\* ram_patterns: the matches of pattern k in the words t of name_upper, each
\* with the word it starts at and the total it reads.
ram_patterns(k, t) ==
    LET size(i) == i \in DOMAIN t /\ GBOf(t[i]) > 0
        at(i, W) == i \in DOMAIN t /\ t[i] \in W
        one(i, start) == [start |-> start, total |-> GBOf(t[i])]
    IN  CASE k = 1 -> {one(i, i) : i \in {j \in DOMAIN t :
                        size(j) /\ at(j + 1, FreqWords) /\ at(j + 2, DdrWords)}}
          [] k = 2 -> {one(i, i) : i \in {j \in DOMAIN t :
                        size(j) /\ at(j + 1, FreqWords)}}
          [] k = 3 -> {one(i, i - 1) : i \in {j \in DOMAIN t :
                        size(j) /\ at(j - 1, {"RAM"})}}
          [] k = 4 -> {one(i, i - 1) : i \in {j \in DOMAIN t :
                        size(j) /\ at(j - 1, {"MEMORI"})}}
          [] k = 5 -> {one(i, i - 1) : i \in {j \in DOMAIN t :
                        size(j) /\ at(j - 1, {"MEMORY"})}}
          [] k = 6 -> {[start |-> i - 1, total |-> TimesOf(t[i - 1]) * GBOf(t[i])] :
                        i \in {j \in DOMAIN t :
                            /\ size(j) /\ j - 1 \in DOMAIN t
                            /\ TimesOf(t[j - 1]) > 0
                            /\ at(j + 1, DdrWords \cup {"RAM"})}}
          [] k = 7 -> {one(i, i) : i \in {j \in DOMAIN t :
                        size(j) /\ at(j + 1, DdrWords)}}
          [] k = 8 -> {one(i, i - 1) : i \in {j \in DOMAIN t :
                        size(j) /\ at(j - 1, DdrWords)}}
          [] k = 9 -> {one(i, i) : i \in {j \in DOMAIN t :
                        size(j) /\ at(j + 1, {"RAM"})}}
          [] k = 10 -> {one(i, i) : i \in {j \in DOMAIN t :
                        size(j) /\ at(j + 1, {"MEMORY"})}}
          [] k = 11 -> {one(i, i) : i \in {j \in DOMAIN t :
                        /\ size(j) /\ j + 1 \in DOMAIN t
                        /\ StartsWithLetter(t[j + 1])}}
          \* pattern 12 reads a size in parentheses, which no name holds
          [] OTHER -> {}

\* re.search: the leftmost match.
Leftmost(M) == CHOOSE m \in M : \A n \in M : m.start <= n.start

\* Any total through the strict tier.
accepted_any(total_ram) == TRUE

\* if total_ram in [2, 4, 8, 16, 32, 64, 128] ... elif 1 <= total_ram <= 256
accepted(total_ram) ==
    \/ total_ram \in {2, 4, 8, 16, 32, 64, 128}
    \/ 1 <= total_ram /\ total_ram <= 256

extract_ram(ram_size) ==
    LET name_upper == UpperStr(Tokens(ram_size.text))
        hits == {k \in 1..12 :
                    /\ ram_patterns(k, name_upper) # {}
                    /\ accepted(Leftmost(ram_patterns(k, name_upper)).total)}
        \* the fallback: \b(\d+)\s*GB\b with no storage word in the name
        bare == {i \in DOMAIN name_upper : GBOf(name_upper[i]) > 0}
        condition ==
            ~\E i \in DOMAIN name_upper : name_upper[i] \in {"SSD", "HDD", "STORAGE"}
    IN  IF hits # {}
        THEN Returns(FormatGB(Leftmost(ram_patterns(First(hits), name_upper)).total))
        ELSE IF /\ bare # {}
                /\ condition
                /\ GBOf(name_upper[First(bare)]) \in {2, 4, 8, 16, 32, 64, 128}
        THEN Returns(FormatGB(GBOf(name_upper[First(bare)])))
        ELSE Returns("Unknown RAM")

extract_storage(storage_size) ==
    LET name_upper == UpperStr(Tokens(storage_size.text))
        \* words the storage patterns ask for before a size and after it
        StorageBefore ==
            {"SSHD", "EMMC", "MMC", "SSD", "HDD", "NVME", "NVM", "STORAGE"}
        StorageAfter == {"SSHD", "SSD", "HDD", "EMMC", "MMC", "NVME", "NVM"}
        at(i, W) == i \in DOMAIN name_upper /\ name_upper[i] \in W
        sizes == {i \in DOMAIN name_upper : GBOf(name_upper[i]) > 0}
        \* storage_patterns 1..12
        explicit == {i \in sizes : at(i - 1, StorageBefore) \/ at(i + 1, StorageAfter)}
        \* the fallback pattern 13: a size at the end of the name
        ram_context ==
            /\ \E i \in DOMAIN name_upper : name_upper[i] \in {"RAM", "MEMORY", "MEMORI"} \cup DdrWords
            /\ ~\E i \in DOMAIN name_upper : name_upper[i] \in {"STORAGE", "SSD", "HDD", "EMMC", "SSHD"}
        fallback == {i \in sizes :
                        /\ i = Len(name_upper) \/ at(i + 1, {"STORAGE"})
                        /\ ~(GBOf(name_upper[i]) <= 128 /\ ram_context)}
        storage_specs == IF explicit # {} THEN explicit ELSE fallback
        \* max(storage_specs, key=capacity_gb)
        main_storage == CHOOSE i \in storage_specs :
                            \A j \in storage_specs :
                                GBOf(name_upper[j]) <= GBOf(name_upper[i])
    IN  IF storage_specs = {} THEN Returns("Unknown Storage")
        ELSE Returns(FormatGB(GBOf(name_upper[main_storage])))

extract_display(display_size) ==
    IF ~isinstance_str(display_size) THEN Returns("Unknown")
    \* no size in inches stands in a word of the model's names
    ELSE Returns("Unknown")

\* ------------------------------------------------------------------------
\* Rows
\* ------------------------------------------------------------------------
tracked_cols == <<"product_name", "brand", "series", "processor_detail",
                  "processor_category", "gpu", "gpu_category", "ram",
                  "storage", "display", "price_raw">>

TrackedSet == {tracked_cols[i] : i \in 1..Len(tracked_cols)}

\* The feature extraction of run_etl: each column is its extractor applied to
\* the product name, the two categories to the detail extracted before.
ExtractedAttr(col, name) ==
    CASE col = "brand" -> extract_brand(Str(name), get_brands).value
      [] col = "series" -> extract_series(Str(name)).value
      [] col = "processor_detail" -> extract_processor(Str(name)).value
      [] col = "processor_category" ->
            standardize_processor(Str(<<extract_processor(Str(name)).value>>)).value
      [] col = "gpu" -> extract_gpu(Str(name)).value
      [] col = "gpu_category" ->
            standardize_gpu(Str(<<extract_gpu(Str(name)).value>>)).value
      [] col = "ram" -> extract_ram(Str(name)).value
      [] col = "storage" -> extract_storage(Str(name)).value
      [] OTHER -> extract_display(Str(name)).value

\* One snapshot row as run_etl hands it to scd2_apply.
SnapRow(name, price, raw_id, processed) ==
    [product_hash |-> compute_product_hash(name),
     raw_id       |-> raw_id,
     processed_at |-> processed,
     attrs        |-> [c \in TrackedSet |->
                         IF c = "product_name" THEN name
                         ELSE IF c = "price_raw" THEN price
                         ELSE ExtractedAttr(c, name)]]

\* Product names and prices a scrape may deliver.
NameA == <<"a">>
NameAUpper == <<"A">>
NameAPadded == <<"a", " ">>
NameB == <<"b">>

\* Names a scrape may deliver beside them: a trailing dash, only a blank,
\* only a dash.
NameADash == <<"a", " ", "-">>

NameBlank == <<" ">>

NameDash == <<"-">>

\* The product name of scenario 1.
NameScenario1 ==
    <<"ASUS", " ", "ROG", " ", "Strix", " ", "G513QY", " ", "16GB", " ",
      "512GB", " ", "SSD">>

Listings == {<<NameA, 1>>, <<NameA, 2>>, <<NameAUpper, 1>>, <<NameAPadded, 1>>,
             <<NameB, 1>>}

\* The scrapes of the executions that run side by side.
ConcListings == {<<NameA, 2>>, <<NameB, 1>>}

\* The scrapes of the execution that ran before them.
ConcFirstRuns == {<<<<NameA, 1>>>>, <<<<NameB, 1>>, <<NameA, 1>>>>}

\* The scrapes of the scenarios: the listing of scenario 1, the same listing
\* at a lower price, another listing.
ScenarioListings == {<<NameScenario1, 25000000>>, <<NameScenario1, 23000000>>,
                     <<NameB, 1>>}

\* The scrapes of the executions whose storage may fail.
FaultListings == {<<NameA, 1>>, <<NameAUpper, 1>>, <<NameB, 1>>}

\* The business keys of the names above, in the order groupby sorts them:
\* the order of their hex digests (3e23.. "b", 6583.. "a ", c6ef.. scenario 1,
\* ca97.. "a", e3b0.. "").
Keys == <<compute_product_hash(NameB), compute_product_hash(NameADash),
          compute_product_hash(NameScenario1),
          compute_product_hash(NameA), compute_product_hash(NameBlank)>>

Rank(h) == CHOOSE i \in DOMAIN Keys : Keys[i] = h

\* prepare_snapshot's output: one row per business key, sorted by key, no
\* empty name.  The raw_id is the row's position in the scrape.
IsSnapshotShape(s) ==
    \A i, j \in DOMAIN s :
        i < j => Rank(compute_product_hash(s[i][1])) < Rank(compute_product_hash(s[j][1]))

SnapshotInputs(listings) ==
    LET keys == {compute_product_hash(l[1]) : l \in listings}
    IN  {s \in UNION {[1..n -> listings] : n \in 0..Cardinality(keys)} :
            IsSnapshotShape(s)}

Snapshot(s, processed) ==
    [i \in DOMAIN s |-> SnapRow(s[i][1], s[i][2], i, processed)]

\* ------------------------------------------------------------------------
\* prepare_snapshot on the raw records of one scrape
\* ------------------------------------------------------------------------
\* The rows of products_raw a scrape may hold; raw_id is the position.
RawNames == {NameA, NameAUpper, NameAPadded, NameB, NameADash, NameBlank,
             NameDash}

RawRecords ==
    {[product_name |-> n, price_raw |-> pt[1], scraped_at |-> pt[2]] :
        n \in RawNames, pt \in {<<1, 1>>, <<2, 1>>, <<1, 2>>}}

RawInputs == UNION {[1..n -> RawRecords] : n \in 0..MaxRaw}

\* df['product_hash'] = df['product_name'].apply(compute_product_hash)
HashAt(df, i) == compute_product_hash(df[i].product_name)

\* The sort with scraped_at ascending.
sorts_before_ascending(df, i, j) ==
    \/ df[i].scraped_at < df[j].scraped_at
    \/ df[i].scraped_at = df[j].scraped_at /\ i <= j

\* Row i is not behind row j of its group after
\* sort_values(['product_hash', 'scraped_at'], ascending=[True, False]):
\* later scraped_at first, and the stable lexsort leaves equal rows in their
\* input order.
sorts_before(df, i, j) ==
    \/ df[i].scraped_at > df[j].scraped_at
    \/ df[i].scraped_at = df[j].scraped_at /\ i <= j

\* groupby('product_hash').first(): the first row of the group of h.
first_of_group(df, h) ==
    CHOOSE i \in DOMAIN df :
        /\ HashAt(df, i) = h
        /\ \A j \in DOMAIN df : HashAt(df, j) = h => sorts_before(df, i, j)

\* The group keys in the order groupby emits them.
KeySeq(S) ==
    [k \in 1..Cardinality(S) |->
        CHOOSE h \in S : Cardinality({g \in S : Rank(g) < Rank(h)}) = k - 1]

\* The filter without str.strip().
nonempty_name_untrimmed(name) == name # <<>>

\* df_snapshot['product_name'].str.strip() != ""
nonempty_name(name) == Strip(name) # <<>>

prepare_snapshot(df_raw, processed) ==
    LET keys == KeySeq({HashAt(df_raw, i) : i \in DOMAIN df_raw})
        firsts == [k \in DOMAIN keys |-> first_of_group(df_raw, keys[k])]
        kept == SelectSeq(firsts, LAMBDA i : nonempty_name(df_raw[i].product_name))
    IN  [k \in DOMAIN kept |->
            SnapRow(df_raw[kept[k]].product_name, df_raw[kept[k]].price_raw,
                    kept[k], processed)]

SnapshotHashes(snapshot) == {snapshot[i].product_hash : i \in DOMAIN snapshot}

\* insert_row that files the row as closed.
insert_row_inactive(srow, run_at) ==
    [product_hash |-> srow.product_hash,
     raw_id       |-> srow.raw_id,
     processed_at |-> srow.processed_at,
     attrs        |-> srow.attrs,
     valid_from   |-> run_at,
     valid_to     |-> NULL,
     is_active    |-> 0]

\* insert_row with both ends of the validity stamped.
insert_row_stamped(srow, run_at) ==
    [product_hash |-> srow.product_hash,
     raw_id       |-> srow.raw_id,
     processed_at |-> srow.processed_at,
     attrs        |-> srow.attrs,
     valid_from   |-> run_at,
     valid_to     |-> run_at,
     is_active    |-> 1]

\* A products_current row opened from a snapshot row (insert_row).
insert_row(srow, run_at) ==
    [product_hash |-> srow.product_hash,
     raw_id       |-> srow.raw_id,
     processed_at |-> srow.processed_at,
     attrs        |-> srow.attrs,
     valid_from   |-> run_at,
     valid_to     |-> NULL,
     is_active    |-> 1]

\* history_row without the terminal valid_to.
history_row_open(row, ph, valid_to) ==
    [row EXCEPT !.product_hash = ph, !.is_active = 0]

\* The archival copy of a row read at the start of the run (history_row).
history_row(row, ph, valid_to) ==
    [row EXCEPT !.product_hash = ph, !.valid_to = valid_to, !.is_active = 0]

\* The comparison without strip().
StrNormRaw(col, v) == v

\* str(v).strip() as the comparison of scd2_apply applies it to one tracked
\* column: a name is trimmed, an integer price prints as its digits and an
\* extractor sentinel has no outer whitespace.
StrNorm(col, v) == IF col = "product_name" THEN Strip(v) ELSE v

\* The tracked columns on which a snapshot row differs from the active row.
ChangedCols(srow, cur_row) ==
    {tracked_cols[k] : k \in {j \in 1..Len(tracked_cols) :
        StrNorm(tracked_cols[j], srow.attrs[tracked_cols[j]])
            # StrNorm(tracked_cols[j], cur_row.attrs[tracked_cols[j]])}}

\* The dict `changed`: column -> {old, new}.
changed(srow, cur_row) ==
    [c \in ChangedCols(srow, cur_row) |->
        [old |-> cur_row.attrs[c], new |-> srow.attrs[c]]]

\* The classification without the len(changed) == 1 test.
change_type_any_price(ch) ==
    IF "price_raw" \in DOMAIN ch THEN "price_update" ELSE "attribute_update"

\* if 'price_raw' in changed and len(changed) == 1
change_type(ch) ==
    IF "price_raw" \in DOMAIN ch /\ Cardinality(DOMAIN ch) = 1
    THEN "price_update" ELSE "attribute_update"

\* The columns of the raw table the scraper writes.
RawColumns == {"raw_id", "product_name", "price_raw", "scraped_at"}

\* load_raw_as_df raises: ValueError without product_name or price_raw,
\* KeyError from the column selection without raw_id; a missing scraped_at is
\* filled in.
load_raw_raises(columns) ==
    \/ "product_name" \notin columns
    \/ "price_raw" \notin columns
    \/ "raw_id" \notin columns

\* ------------------------------------------------------------------------
\* State
\* ------------------------------------------------------------------------
VARIABLES
    cur,        \* products_current, product_id = position
    hist,       \* products_history, history_id = position
    changes,    \* changes_log
    runs,       \* etl_runs
    now,        \* the wall clock, in seconds
    nruns,      \* ETL executions started
    nfaults,    \* storage failures injected
    proc,       \* per process: position in run_etl and its local variables
    pipe        \* main.py: position in the pipeline, exit statuses, files

vars == <<cur, hist, changes, runs, now, nruns, nfaults, proc, pipe>>

stats0 == [new_products |-> 0, price_updates |-> 0, attribute_updates |-> 0,
           discontinued |-> 0, unchanged |-> 0, duplicates_in_raw |-> 0]

\* A process that is not executing run_etl.  Beside the local variables of
\* the code it records, for the properties below: the scrape it was given
\* (input) and the one of the execution before it when that one ran to its
\* end (prev, <<>> if none), the tables as the execution found them (cur0,
\* hist0, changes0), the keys whose statement failed (failed) and whether the
\* guard ran to its commit (guard_ok), the columns of the raw table it was
\* given (columns) and the ledger as the execution found it (runs0).  dups and
\* to_close are the guard's active_duplicates frame and the rows its open
\* transaction has updated.
IdleProc ==
    [pc |-> "idle", run_at |-> NULL, snapshot |-> <<>>, current_map |-> <<>>,
     todo |-> {}, ph |-> NULL, i |-> 1, stats |-> stats0, run_id |-> NULL,
     guard_ok |-> FALSE, failed |-> {}, input |-> <<>>, prev |-> <<>>,
     cur0 |-> <<>>, hist0 |-> <<>>, changes0 |-> <<>>,
     columns |-> RawColumns, runs0 |-> <<>>,
     dups |-> {}, to_close |-> {}, extracted |-> <<>>]

\* main.py before it is started: no stage has run, no file exists.
IdlePipe ==
    [pc |-> "idle", stage |-> 0, started |-> <<>>, codes |-> <<>>,
     exit_code |-> 0, files |-> {}, npipes |-> 0]

Init ==
    /\ cur = <<>>
    /\ hist = <<>>
    /\ changes = <<>>
    /\ runs = <<>>
    /\ now = 0
    /\ nruns = 0
    /\ nfaults = 0
    /\ pipe = IdlePipe
    /\ proc = [p \in Procs |-> IdleProc]

\* ------------------------------------------------------------------------
\* Queries on products_current
\* ------------------------------------------------------------------------
\* The SELECT without WHERE is_active=1.
ActiveIdsAll(tbl) == DOMAIN tbl

\* SELECT * FROM products_current WHERE is_active=1
ActiveIds(tbl) == {i \in DOMAIN tbl : tbl[i].is_active = 1}

ActiveOf(tbl, h) == {i \in ActiveIds(tbl) : tbl[i].product_hash = h}

ActiveHashes(tbl) == {tbl[i].product_hash : i \in ActiveIds(tbl)}

\* The UPDATE without AND is_active = 1.
CloseActiveAllRows(tbl, ph, valid_to) ==
    [i \in DOMAIN tbl |->
        IF tbl[i].product_hash = ph
        THEN [tbl[i] EXCEPT !.valid_to = valid_to, !.is_active = 0]
        ELSE tbl[i]]

\* A DELETE of the active rows of the key in place of the UPDATE.
CloseActiveDelete(tbl, ph, valid_to) ==
    SelectSeq(tbl, LAMBDA r : ~(r.product_hash = ph /\ r.is_active = 1))

\* The UPDATE without valid_to.
CloseActiveUnstamped(tbl, ph, valid_to) ==
    [i \in DOMAIN tbl |->
        IF tbl[i].product_hash = ph /\ tbl[i].is_active = 1
        THEN [tbl[i] EXCEPT !.is_active = 0]
        ELSE tbl[i]]

\* UPDATE products_current SET valid_to = ?, is_active = 0
\*  WHERE product_hash = ? AND is_active = 1
CloseActive(tbl, ph, valid_to) ==
    [i \in DOMAIN tbl |->
        IF tbl[i].product_hash = ph /\ tbl[i].is_active = 1
        THEN [tbl[i] EXCEPT !.valid_to = valid_to, !.is_active = 0]
        ELSE tbl[i]]

\* The upsert loop placed before the discontinued loop.
PassPcUpsertFirst(todo, i, snapshot) ==
    IF i <= Len(snapshot) THEN "upsert"
    ELSE IF todo # {} THEN "disc"
    ELSE "guard"

\* Where scd2_apply goes next: the discontinued loop, the upsert loop over
\* the snapshot rows, then the duplicate-active guard.
PassPc(todo, i, snapshot) ==
    IF todo # {} THEN "disc"
    ELSE IF i <= Len(snapshot) THEN "upsert"
    ELSE "guard"

Resting(p) == proc[p].pc \in {"idle", "done", "raised", "error"}

\* ------------------------------------------------------------------------
\* run_etl up to the call of scd2_apply
\* ------------------------------------------------------------------------
Ticks == {0, 1}

\* The single writer of the sequential design.
Writer == CHOOSE p \in Procs : \A q \in Procs : p <= q

\* run_etl: read the clock, load the raw table, build the snapshot and run
\* the feature extraction.
Begin(p, listings) ==
    /\ Resting(p)
    /\ nruns' = nruns + 1
    /\ \E tick \in (IF now = 0 THEN {1} ELSE Ticks), s \in SnapshotInputs(listings) :
          /\ now' = now + tick
          /\ proc' = [proc EXCEPT ![p] =
                        [IdleProc EXCEPT !.pc = "load",
                                         !.run_at = now + tick,
                                         !.snapshot = Snapshot(s, now + tick),
                                         !.input = s,
                                         !.prev = IF proc[p].pc = "done"
                                                  THEN <<proc[p].input>>
                                                  ELSE <<>>,
                                         !.cur0 = cur,
                                         !.hist0 = hist,
                                         !.changes0 = changes,
                                         !.runs0 = runs]]
    /\ UNCHANGED <<cur, hist, changes, runs, nfaults, pipe>>

\* One execution at a time, by the single writer.
BeginSeq(p) ==
    /\ p = Writer
    /\ nruns < MaxRuns
    /\ Begin(p, Listings)

\* scd2_apply: SELECT the active rows and index them by product_hash.
\* DataFrame.to_dict('index') raises ValueError when two active rows share a
\* product_hash; nothing catches it.
LoadCurrent(p) ==
    /\ proc[p].pc = "load"
    /\ IF \E h \in ActiveHashes(cur) : Cardinality(ActiveOf(cur, h)) > 1
       THEN proc' = [proc EXCEPT ![p].pc = "raised"]
       ELSE LET current_map == [h \in ActiveHashes(cur) |->
                                    cur[CHOOSE i \in ActiveOf(cur, h) : TRUE]]
                discontinued_hashes ==
                    DOMAIN current_map \ SnapshotHashes(proc[p].snapshot)
            IN  proc' = [proc EXCEPT
                    ![p].current_map = current_map,
                    ![p].todo = discontinued_hashes,
                    ![p].pc = PassPc(discontinued_hashes, 1, proc[p].snapshot)]
    /\ UNCHANGED <<cur, hist, changes, runs, now, nruns, nfaults, pipe>>

\* ------------------------------------------------------------------------
\* scd2_apply: the discontinued pass
\* ------------------------------------------------------------------------
log_entry(ph, type, details, run_at) ==
    [run_id |-> NULL, product_hash |-> ph, change_type |-> type,
     details |-> details, changed_at |-> run_at]

\* for ph in discontinued_hashes: UPDATE ... SET valid_to, is_active = 0
DiscClose(p) ==
    /\ proc[p].pc = "disc"
    /\ \E ph \in proc[p].todo :
          /\ cur' = CloseActive(cur, ph, proc[p].run_at)
          /\ proc' = [proc EXCEPT ![p].ph = ph,
                                  ![p].stats.discontinued = @ + 1,
                                  ![p].pc = "disc_hist"]
    /\ UNCHANGED <<hist, changes, runs, now, nruns, nfaults, pipe>>

\* INSERT INTO products_history the row read at the start, closed
DiscHist(p) ==
    /\ proc[p].pc = "disc_hist"
    /\ hist' = Append(hist, history_row(proc[p].current_map[proc[p].ph],
                                        proc[p].ph, proc[p].run_at))
    /\ proc' = [proc EXCEPT ![p].pc = "disc_meta"]
    /\ UNCHANGED <<cur, changes, runs, now, nruns, nfaults, pipe>>

\* INSERT INTO changes_log (..., 'discontinued', ...)
DiscMeta(p) ==
    /\ proc[p].pc = "disc_meta"
    /\ changes' = Append(changes,
            log_entry(proc[p].ph, "discontinued",
                      [note |-> "no longer present in latest snapshot"],
                      proc[p].run_at))
    /\ proc' = [proc EXCEPT
            ![p].todo = @ \ {proc[p].ph},
            ![p].pc = PassPc(proc[p].todo \ {proc[p].ph}, 1, proc[p].snapshot)]
    /\ UNCHANGED <<cur, hist, runs, now, nruns, nfaults, pipe>>

\* ------------------------------------------------------------------------
\* scd2_apply: the upsert pass over snapshot.iterrows()
\* ------------------------------------------------------------------------
srow(p) == proc[p].snapshot[proc[p].i]

AtRow(p) == proc[p].pc = "upsert" /\ proc[p].i <= Len(proc[p].snapshot)

\* The lookup by the raw product name.
IsNewByName(p) ==
    \A h \in DOMAIN proc[p].current_map :
        proc[p].current_map[h].attrs["product_name"] # srow(p).attrs["product_name"]

IsNew(p) == srow(p).product_hash \notin DOMAIN proc[p].current_map

cur_row(p) == proc[p].current_map[srow(p).product_hash]

\* The loop moves on to the next snapshot row.
NextRow(p) == PassPc({}, proc[p].i + 1, proc[p].snapshot)

\* if ph not in current_map: INSERT INTO products_current
NewInsert(p) ==
    /\ AtRow(p)
    /\ IsNew(p)
    /\ cur' = Append(cur, insert_row(srow(p), proc[p].run_at))
    /\ proc' = [proc EXCEPT ![p].stats.new_products = @ + 1,
                            ![p].pc = "new_meta"]
    /\ UNCHANGED <<hist, changes, runs, now, nruns, nfaults, pipe>>

\* INSERT INTO changes_log (..., 'new', ...)
NewMeta(p) ==
    /\ proc[p].pc = "new_meta"
    /\ changes' = Append(changes,
            log_entry(srow(p).product_hash, "new",
                      [price_raw |-> srow(p).attrs["price_raw"]],
                      proc[p].run_at))
    /\ proc' = [proc EXCEPT ![p].i = @ + 1, ![p].pc = NextRow(p)]
    /\ UNCHANGED <<cur, hist, runs, now, nruns, nfaults, pipe>>

\* if not changed: stats['unchanged'] += 1
Unchanged(p) ==
    /\ AtRow(p)
    /\ ~IsNew(p)
    /\ ChangedCols(srow(p), cur_row(p)) = {}
    /\ proc' = [proc EXCEPT ![p].stats.unchanged = @ + 1,
                            ![p].i = @ + 1,
                            ![p].pc = NextRow(p)]
    /\ UNCHANGED <<cur, hist, changes, runs, now, nruns, nfaults, pipe>>

\* else: close the previous active record
ChgClose(p) ==
    /\ AtRow(p)
    /\ ~IsNew(p)
    /\ ChangedCols(srow(p), cur_row(p)) # {}
    /\ cur' = CloseActive(cur, srow(p).product_hash, proc[p].run_at)
    /\ proc' = [proc EXCEPT ![p].pc = "chg_insert"]
    /\ UNCHANGED <<hist, changes, runs, now, nruns, nfaults, pipe>>

\* insert the new current record with the new attributes
ChgInsert(p) ==
    /\ proc[p].pc = "chg_insert"
    /\ cur' = Append(cur, insert_row(srow(p), proc[p].run_at))
    /\ proc' = [proc EXCEPT ![p].pc = "chg_hist"]
    /\ UNCHANGED <<hist, changes, runs, now, nruns, nfaults, pipe>>

\* copy the previous version into products_history
ChgHist(p) ==
    /\ proc[p].pc = "chg_hist"
    /\ hist' = Append(hist, history_row(cur_row(p), srow(p).product_hash,
                                        proc[p].run_at))
    /\ proc' = [proc EXCEPT ![p].pc = "chg_meta"]
    /\ UNCHANGED <<cur, changes, runs, now, nruns, nfaults, pipe>>

\* classify the change and INSERT INTO changes_log
ChgMeta(p) ==
    /\ proc[p].pc = "chg_meta"
    /\ LET ch == changed(srow(p), cur_row(p))
       IN  /\ changes' = Append(changes,
                    log_entry(srow(p).product_hash, change_type(ch), ch,
                              proc[p].run_at))
           /\ proc' = [proc EXCEPT
                    ![p].stats.price_updates =
                        IF change_type(ch) = "price_update" THEN @ + 1 ELSE @,
                    ![p].stats.attribute_updates =
                        IF change_type(ch) = "price_update" THEN @ ELSE @ + 1,
                    ![p].i = @ + 1,
                    ![p].pc = NextRow(p)]
    /\ UNCHANGED <<cur, hist, runs, now, nruns, nfaults, pipe>>

\* ------------------------------------------------------------------------
\* scd2_apply: the duplicate-active guard
\* ------------------------------------------------------------------------
\* SELECT product_hash ... WHERE is_active=1 GROUP BY product_hash HAVING cnt > 1
active_duplicates(tbl) ==
    {h \in ActiveHashes(tbl) : Cardinality(ActiveOf(tbl, h)) > 1}

\* rows_active.iloc[0] of ORDER BY valid_from DESC: an active row of the key
\* with the greatest valid_from; SQL leaves the order of equal keys open.
Latest(tbl, h) ==
    {i \in ActiveOf(tbl, h) :
        \A j \in ActiveOf(tbl, h) : tbl[j].valid_from <= tbl[i].valid_from}

\* A guard that closes nothing.
CloseExtrasNone(tbl, keep, run_at) == tbl

\* UPDATE ... SET is_active=0, valid_to=? WHERE product_id=? for every active
\* row of a duplicated key but the kept one.
CloseExtras(tbl, keep, run_at) ==
    [i \in DOMAIN tbl |->
        IF /\ tbl[i].is_active = 1
           /\ tbl[i].product_hash \in DOMAIN keep
           /\ keep[tbl[i].product_hash] # i
        THEN [tbl[i] EXCEPT !.is_active = 0, !.valid_to = run_at]
        ELSE tbl[i]]

Guard(p) ==
    /\ proc[p].pc = "guard"
    /\ \E keep \in [active_duplicates(cur) -> DOMAIN cur] :
          /\ \A h \in DOMAIN keep : keep[h] \in Latest(cur, h)
          /\ cur' = CloseExtras(cur, keep, proc[p].run_at)
    /\ proc' = [proc EXCEPT ![p].guard_ok = TRUE, ![p].pc = "record"]
    /\ UNCHANGED <<hist, changes, runs, now, nruns, nfaults, pipe>>

\* ------------------------------------------------------------------------
\* record_run_meta
\* ------------------------------------------------------------------------
\* INSERT INTO etl_runs; run_id = cur.lastrowid
RecordRun(p) ==
    /\ proc[p].pc = "record"
    /\ runs' = Append(runs, [run_id |-> Len(runs) + 1,
                             run_at |-> proc[p].run_at,
                             stats  |-> proc[p].stats])
    /\ proc' = [proc EXCEPT ![p].run_id = Len(runs) + 1, ![p].pc = "attach"]
    /\ UNCHANGED <<cur, hist, changes, now, nruns, nfaults, pipe>>

\* The UPDATE reaching the newest entry only.
attach_run_id_latest(log, run_id) ==
    [k \in DOMAIN log |->
        IF k = Len(log) /\ log[k].run_id = NULL
        THEN [log[k] EXCEPT !.run_id = run_id]
        ELSE log[k]]

\* UPDATE changes_log SET run_id = ? WHERE run_id IS NULL
attach_run_id(log, run_id) ==
    [k \in DOMAIN log |->
        IF log[k].run_id = NULL THEN [log[k] EXCEPT !.run_id = run_id]
        ELSE log[k]]

AttachRunId(p) ==
    /\ proc[p].pc = "attach"
    /\ changes' = attach_run_id(changes, proc[p].run_id)
    /\ proc' = [proc EXCEPT ![p].pc = "done"]
    /\ UNCHANGED <<cur, hist, runs, now, nruns, nfaults, pipe>>

\* ------------------------------------------------------------------------
\* Specification: sequential executions, storage never fails
\* ------------------------------------------------------------------------
Step(p) ==
    \/ LoadCurrent(p)
    \/ DiscClose(p)
    \/ DiscHist(p)
    \/ DiscMeta(p)
    \/ NewInsert(p)
    \/ NewMeta(p)
    \/ Unchanged(p)
    \/ ChgClose(p)
    \/ ChgInsert(p)
    \/ ChgHist(p)
    \/ ChgMeta(p)
    \/ Guard(p)
    \/ RecordRun(p)
    \/ AttachRunId(p)

Next == \E p \in Procs : BeginSeq(p) \/ Step(p)

Spec == Init /\ [][Next]_vars

\* Sequential executions on the scrapes of the scenarios.
BeginScenario(p) ==
    /\ p = Writer
    /\ nruns < MaxRuns
    /\ Begin(p, ScenarioListings)

NextScenario == \E p \in Procs : BeginScenario(p) \/ Step(p)

SpecScenario == Init /\ [][NextScenario]_vars

\* ------------------------------------------------------------------------
\* Storage failures: a statement (or its commit) raises sqlite3.Error
\* ------------------------------------------------------------------------
MayFail == nfaults < MaxFaults

\* The except clause of the discontinued loop: log, go on with the next key.
SkipDiscontinued(p, ph) ==
    /\ nfaults' = nfaults + 1
    /\ proc' = [proc EXCEPT
            ![p].failed = @ \cup {ph},
            ![p].todo = @ \ {ph},
            ![p].pc = PassPc(proc[p].todo \ {ph}, 1, proc[p].snapshot)]
    /\ UNCHANGED <<cur, hist, changes, runs, now, nruns, pipe>>

\* A statement outside every try block fails: the exception leaves
\* scd2_apply and run_etl.
Raise(p, ph) ==
    /\ nfaults' = nfaults + 1
    /\ proc' = [proc EXCEPT ![p].failed = @ \cup {ph}, ![p].pc = "raised"]
    /\ UNCHANGED <<cur, hist, changes, runs, now, nruns, pipe>>

DiscCloseFail(p) ==
    /\ MayFail
    /\ proc[p].pc = "disc"
    /\ \E ph \in proc[p].todo : SkipDiscontinued(p, ph)

DiscHistFail(p) ==
    /\ MayFail
    /\ proc[p].pc = "disc_hist"
    /\ SkipDiscontinued(p, proc[p].ph)

DiscMetaFail(p) ==
    /\ MayFail
    /\ proc[p].pc = "disc_meta"
    /\ SkipDiscontinued(p, proc[p].ph)

NewInsertFail(p) ==
    /\ MayFail
    /\ AtRow(p)
    /\ IsNew(p)
    /\ Raise(p, srow(p).product_hash)

NewMetaFail(p) ==
    /\ MayFail
    /\ proc[p].pc = "new_meta"
    /\ Raise(p, srow(p).product_hash)

\* The only try block of the upsert pass: the failed close is logged and the
\* replacement row is inserted all the same.
ChgCloseFail(p) ==
    /\ MayFail
    /\ AtRow(p)
    /\ ~IsNew(p)
    /\ ChangedCols(srow(p), cur_row(p)) # {}
    /\ nfaults' = nfaults + 1
    /\ proc' = [proc EXCEPT ![p].failed = @ \cup {srow(p).product_hash},
                            ![p].pc = "chg_insert"]
    /\ UNCHANGED <<cur, hist, changes, runs, now, nruns, pipe>>

ChgInsertFail(p) ==
    /\ MayFail
    /\ proc[p].pc = "chg_insert"
    /\ Raise(p, srow(p).product_hash)

ChgHistFail(p) ==
    /\ MayFail
    /\ proc[p].pc = "chg_hist"
    /\ Raise(p, srow(p).product_hash)

ChgMetaFail(p) ==
    /\ MayFail
    /\ proc[p].pc = "chg_meta"
    /\ Raise(p, srow(p).product_hash)

\* The guard's try block: its UPDATEs are committed together at the end, so a
\* failure leaves products_current as the guard found it.
GuardFail(p) ==
    /\ MayFail
    /\ proc[p].pc = "guard"
    /\ nfaults' = nfaults + 1
    /\ proc' = [proc EXCEPT ![p].pc = "record"]
    /\ UNCHANGED <<cur, hist, changes, runs, now, nruns, pipe>>

\* record_run_meta has no try block: a failing INSERT INTO etl_runs leaves
\* run_etl by the exception, without a ledger row.
RecordRunFail(p) ==
    /\ MayFail
    /\ proc[p].pc = "record"
    /\ nfaults' = nfaults + 1
    /\ proc' = [proc EXCEPT ![p].pc = "raised"]
    /\ UNCHANGED <<cur, hist, changes, runs, now, nruns, pipe>>

\* The UPDATE of changes_log fails after the ledger row was committed.
AttachRunIdFail(p) ==
    /\ MayFail
    /\ proc[p].pc = "attach"
    /\ nfaults' = nfaults + 1
    /\ proc' = [proc EXCEPT ![p].pc = "raised"]
    /\ UNCHANGED <<cur, hist, changes, runs, now, nruns, pipe>>

Fault(p) ==
    \/ DiscCloseFail(p)
    \/ DiscHistFail(p)
    \/ DiscMetaFail(p)
    \/ NewInsertFail(p)
    \/ NewMetaFail(p)
    \/ ChgCloseFail(p)
    \/ ChgInsertFail(p)
    \/ ChgHistFail(p)
    \/ ChgMetaFail(p)
    \/ GuardFail(p)
    \/ RecordRunFail(p)
    \/ AttachRunIdFail(p)

BeginFault(p) ==
    /\ p = Writer
    /\ nruns < MaxFaultRuns
    /\ Begin(p, FaultListings)

\* run_etl on a raw table that load_raw_as_df rejects: the except clause
\* logs the exception and run_etl returns {"status": "error"}.
BeginBadInput(p) ==
    /\ p = Writer
    /\ nruns < MaxFaultRuns
    /\ Resting(p)
    /\ nruns' = nruns + 1
    /\ \E tick \in (IF now = 0 THEN {1} ELSE Ticks), columns \in SUBSET RawColumns :
          /\ load_raw_raises(columns)
          /\ now' = now + tick
          /\ proc' = [proc EXCEPT ![p] =
                        [IdleProc EXCEPT !.pc = "error",
                                         !.run_at = now + tick,
                                         !.columns = columns,
                                         !.cur0 = cur,
                                         !.hist0 = hist,
                                         !.changes0 = changes,
                                         !.runs0 = runs]]
    /\ UNCHANGED <<cur, hist, changes, runs, nfaults, pipe>>

\* Sequential executions over a storage whose writes may fail and raw tables
\* that may lack columns.
NextFault ==
    \E p \in Procs : BeginFault(p) \/ BeginBadInput(p) \/ Step(p) \/ Fault(p)

SpecFault == Init /\ [][NextFault]_vars

\* ------------------------------------------------------------------------
\* Two processes: every SQL statement is one step
\* ------------------------------------------------------------------------
\* The guard that closes only rows older than the kept one.
ExtrasOfOlder(tbl, h, keep) ==
    {i \in ActiveOf(tbl, h) : tbl[i].valid_from < tbl[keep].valid_from}

\* to_close = rows_active['product_id'].tolist()[1:]
ExtrasOf(tbl, h, keep) == ActiveOf(tbl, h) \ {keep}

\* UPDATE ... SET is_active=0, valid_to=? WHERE product_id=?, for the rows the
\* guard's transaction updated, at its commit.
CloseIds(tbl, ids, run_at) ==
    [i \in DOMAIN tbl |->
        IF i \in ids THEN [tbl[i] EXCEPT !.is_active = 0, !.valid_to = run_at]
        ELSE tbl[i]]

\* The guard's first SELECT: the keys with more than one active row.
GuardSelect(p) ==
    /\ proc[p].pc = "guard"
    /\ LET dups == active_duplicates(cur)
       IN  proc' = [proc EXCEPT
                ![p].dups = dups,
                ![p].to_close = {},
                ![p].guard_ok = (dups = {}),
                ![p].pc = IF dups = {} THEN "record" ELSE "guard_rows"]
    /\ UNCHANGED <<cur, hist, changes, runs, now, nruns, nfaults, pipe>>

\* for each duplicated key: SELECT its active rows ORDER BY valid_from DESC,
\* keep the first, update the others.  When the other process has closed the
\* rows of the key in between, rows_active.iloc[0] raises IndexError: the
\* except clause logs it and the connection is closed without a commit.
GuardRows(p) ==
    /\ proc[p].pc = "guard_rows"
    /\ \E h \in proc[p].dups :
          IF ActiveOf(cur, h) = {}
          THEN proc' = [proc EXCEPT ![p].dups = {}, ![p].to_close = {},
                                    ![p].pc = "record"]
          ELSE \E keep \in Latest(cur, h) :
                  proc' = [proc EXCEPT
                      ![p].dups = @ \ {h},
                      ![p].to_close = @ \cup ExtrasOf(cur, h, keep),
                      ![p].pc = IF proc[p].dups = {h} THEN "guard_commit"
                                ELSE "guard_rows"]
    /\ UNCHANGED <<cur, hist, changes, runs, now, nruns, nfaults, pipe>>

\* conn_cur.commit() of the guard
GuardCommit(p) ==
    /\ proc[p].pc = "guard_commit"
    /\ cur' = CloseIds(cur, proc[p].to_close, proc[p].run_at)
    /\ proc' = [proc EXCEPT ![p].to_close = {}, ![p].guard_ok = TRUE,
                            ![p].pc = "record"]
    /\ UNCHANGED <<hist, changes, runs, now, nruns, nfaults, pipe>>

StepConc(p) ==
    \/ LoadCurrent(p)
    \/ DiscClose(p)
    \/ DiscHist(p)
    \/ DiscMeta(p)
    \/ NewInsert(p)
    \/ NewMeta(p)
    \/ Unchanged(p)
    \/ ChgClose(p)
    \/ ChgInsert(p)
    \/ ChgHist(p)
    \/ ChgMeta(p)
    \/ GuardSelect(p)
    \/ GuardRows(p)
    \/ GuardCommit(p)
    \/ RecordRun(p)
    \/ AttachRunId(p)

\* A process (python etl.py) executes run_etl once; nothing keeps the other
\* one from starting meanwhile.
BeginConc(p) ==
    /\ proc[p].pc = "idle"
    /\ Begin(p, ConcListings)

NextConc == \E p \in Procs : BeginConc(p) \/ StepConc(p)

\* The tables as one completed execution on the scrape s, at second 1,
\* leaves them.
FirstRunTables(s) ==
    /\ cur = [i \in DOMAIN s |-> insert_row(Snapshot(s, 1)[i], 1)]
    /\ hist = <<>>
    /\ changes = [i \in DOMAIN s |->
                    [log_entry(Snapshot(s, 1)[i].product_hash, "new",
                               [price_raw |-> s[i][2]], 1) EXCEPT !.run_id = 1]]
    /\ runs = <<[run_id |-> 1, run_at |-> 1,
                 stats |-> [stats0 EXCEPT !.new_products = Len(s)]]>>
    /\ now = 1

\* The two processes start from the tables of a first execution.
InitConc ==
    /\ \E s \in ConcFirstRuns : FirstRunTables(s)
    /\ nruns = 1
    /\ nfaults = 0
    /\ pipe = IdlePipe
    /\ proc = [p \in Procs |-> IdleProc]

SpecConc == InitConc /\ [][NextConc]_vars

\* ------------------------------------------------------------------------
\* A current table seeded with two active rows of one key
\* ------------------------------------------------------------------------
\* The tables a sequential execution leaves behind when, on a renamed
\* listing, the close of the old version fails and the guard fails as well
\* (ChgCloseFail, then GuardFail): both versions of the key are active.
SeedOld == insert_row(SnapRow(NameA, 1, 1, 1), 1)

Seeded ==
    LET SeedNew == insert_row(SnapRow(NameAUpper, 1, 1, 2), 2)
        SeedChanges ==
            <<[log_entry(SeedOld.product_hash, "new", [price_raw |-> 1], 1)
                    EXCEPT !.run_id = 1],
              [log_entry(SeedOld.product_hash, "attribute_update",
                         changed(SnapRow(NameAUpper, 1, 1, 2), SeedOld), 2)
                    EXCEPT !.run_id = 2]>>
        SeedRuns ==
            <<[run_id |-> 1, run_at |-> 1,
               stats |-> [stats0 EXCEPT !.new_products = 1]],
              [run_id |-> 2, run_at |-> 2,
               stats |-> [stats0 EXCEPT !.attribute_updates = 1]]>>
    IN  /\ cur = <<SeedOld, SeedNew>>
        /\ hist = <<history_row(SeedOld, SeedOld.product_hash, 2)>>
        /\ changes = SeedChanges
        /\ runs = SeedRuns

InitSeeded ==
    \/ Init
    \/ /\ Seeded
       /\ now = 2
       /\ nruns = 0
       /\ nfaults = 0
       /\ pipe = IdlePipe
       /\ proc = [p \in Procs |-> IdleProc]

\* Sequential executions, storage never fails, from empty or seeded tables.
SpecSeeded == InitSeeded /\ [][Next]_vars

\* ------------------------------------------------------------------------
\* Specification: prepare_snapshot on every scrape of up to MaxRaw records
\* ------------------------------------------------------------------------
InitSnapshot ==
    /\ cur = <<>>
    /\ hist = <<>>
    /\ changes = <<>>
    /\ runs = <<>>
    /\ now = 1
    /\ nruns = 0
    /\ nfaults = 0
    /\ pipe = IdlePipe
    /\ \E df_raw \in RawInputs :
          proc = [p \in Procs |->
                    IF p = Writer
                    THEN [IdleProc EXCEPT !.pc = "raw", !.input = df_raw]
                    ELSE IdleProc]

\* snapshot = prepare_snapshot(df_raw)
PrepareSnapshot(p) ==
    /\ proc[p].pc = "raw"
    /\ proc' = [proc EXCEPT
            ![p].snapshot = prepare_snapshot(proc[p].input, now),
            ![p].pc = "snapshot"]
    /\ UNCHANGED <<cur, hist, changes, runs, now, nruns, nfaults, pipe>>

NextSnapshot == \E p \in Procs : PrepareSnapshot(p)

SpecSnapshot == InitSnapshot /\ [][NextSnapshot]_vars

\* ------------------------------------------------------------------------
\* Specification: the extractors on every argument of up to MaxWords words
\* ------------------------------------------------------------------------
\* ' '.join(ws)
RECURSIVE JoinWords(_)
JoinWords(ws) ==
    IF Len(ws) <= 1 THEN ws ELSE <<Head(ws), " ">> \o JoinWords(Tail(ws))

\* The arguments of the extractors: product names (the empty name, a blank
\* one, names of up to MaxWords words, scenario 1), extracted details as
\* standardize_processor and standardize_gpu get them, values that are no
\* string.
ExtractArgs ==
    LET ExtractWords ==
            {"ASUS", "ROG", "16GB", "12GB", "512GB", "SSD", "RAM", "2X", "DDR4"}
        NameArgs ==
            {Str(JoinWords(ws)) :
                ws \in UNION {[1..n -> ExtractWords] : n \in 0..MaxWords}}
                \cup {Str(NameBlank), Str(NameA), Str(NameScenario1)}
        DetailArgs ==
            {Str(<<"Unknown Processor">>), Str(<<"Unknown Graphics">>),
             Str(<<"Integrated Graphics">>), Str(<<"Xeon">>),
             Str(<<"Intel UHD Graphics">>)}
        NonStringArgs == {None, NaN, Five}
    IN  NameArgs \cup DetailArgs \cup NonStringArgs

Extractors ==
    {"extract_brand", "extract_series", "extract_processor", "extract_gpu",
     "extract_ram", "extract_storage", "extract_display",
     "standardize_processor", "standardize_gpu"}

\* The call f(x).
Call(f, x) ==
    CASE f = "extract_brand" -> extract_brand(x, get_brands)
      [] f = "extract_series" -> extract_series(x)
      [] f = "extract_processor" -> extract_processor(x)
      [] f = "extract_gpu" -> extract_gpu(x)
      [] f = "extract_ram" -> extract_ram(x)
      [] f = "extract_storage" -> extract_storage(x)
      [] f = "extract_display" -> extract_display(x)
      [] f = "standardize_processor" -> standardize_processor(x)
      [] OTHER -> standardize_gpu(x)

InitExtract ==
    /\ cur = <<>>
    /\ hist = <<>>
    /\ changes = <<>>
    /\ runs = <<>>
    /\ now = 1
    /\ nruns = 0
    /\ nfaults = 0
    /\ pipe = IdlePipe
    /\ \E x \in ExtractArgs :
          proc = [p \in Procs |->
                    IF p = Writer
                    THEN [IdleProc EXCEPT !.pc = "arg", !.input = x]
                    ELSE IdleProc]

\* Every extractor is called with the argument.
ApplyExtractors(p) ==
    /\ proc[p].pc = "arg"
    /\ proc' = [proc EXCEPT
            ![p].extracted = [f \in Extractors |-> Call(f, proc[p].input)],
            ![p].pc = "extracted"]
    /\ UNCHANGED <<cur, hist, changes, runs, now, nruns, nfaults, pipe>>

NextExtract == \E p \in Procs : ApplyExtractors(p)

SpecExtract == InitExtract /\ [][NextExtract]_vars

\* ------------------------------------------------------------------------
\* main.py: the pipeline of scraper, ETL, export and seeder
\* ------------------------------------------------------------------------
\* The check that finds every file.
verify_step_prerequisites_none(step_num, files) == TRUE

\* os.path.exists of the file the step reads: raw_db before the ETL,
\* current_db before the export, csv_export before the seeder.
verify_step_prerequisites(step_num, files) ==
    CASE step_num = 2 -> "raw_db" \in files
      [] step_num = 3 -> "current_db" \in files
      [] step_num = 4 -> "csv_export" \in files
      [] OTHER -> TRUE

\* check_prerequisites of the four run_step calls.
check_prerequisites(step_num) == step_num # 1

\* The file a stage writes: the scraper raw_db (save_snapshot_dedup), the
\* export csv_export (df.to_csv); the seeder writes none.
OutputFile(step_num) ==
    CASE step_num = 1 -> {"raw_db"}
      [] step_num = 3 -> {"csv_export"}
      [] OTHER -> {}

\* __main__: ensure_directories() and the first run_step call.
PipelineStart ==
    /\ pipe.pc \in {"idle", "exited"}
    /\ pipe.npipes < MaxPipelines
    /\ pipe' = [pipe EXCEPT !.pc = "step", !.stage = 1, !.started = <<>>,
                            !.codes = <<>>, !.exit_code = 0, !.npipes = @ + 1]
    /\ UNCHANGED <<cur, hist, changes, runs, now, nruns, nfaults, proc>>

\* run_step up to subprocess.run: a failed prerequisite check raises
\* RuntimeError, which the except clause of __main__ answers with
\* sys.exit(1); otherwise the stage's script is started as a new process.
RunStep ==
    /\ pipe.pc = "step"
    /\ IF /\ check_prerequisites(pipe.stage)
          /\ ~verify_step_prerequisites(pipe.stage, pipe.files)
       THEN /\ pipe' = [pipe EXCEPT !.pc = "exited", !.exit_code = 1]
            /\ UNCHANGED proc
       ELSE /\ pipe' = [pipe EXCEPT !.pc = "running",
                                    !.started = Append(@, pipe.stage)]
            /\ proc' = IF pipe.stage = 2
                       THEN [proc EXCEPT ![Writer] = IdleProc]
                       ELSE proc
    /\ UNCHANGED <<cur, hist, changes, runs, now, nruns, nfaults>>

\* subprocess.run(check=True) is back: status 0 lets run_step return and
\* __main__ go on with the next stage (after the seeder it ends with status
\* 0); another status raises CalledProcessError, run_step raises
\* RuntimeError and __main__ ends with sys.exit(1).
StageReturned(code, written) ==
    /\ pipe' = [pipe EXCEPT
            !.codes = Append(@, code),
            !.files = @ \cup written,
            !.pc = IF code = 0 /\ pipe.stage < 4 THEN "step" ELSE "exited",
            !.stage = IF code = 0 /\ pipe.stage < 4 THEN @ + 1 ELSE @,
            !.exit_code = IF code = 0 THEN 0 ELSE 1]
    /\ UNCHANGED <<cur, hist, changes, runs, now, nruns, nfaults, proc>>

\* The scraper, the export or the seeder ends: with status 0 or 1, its file
\* written or not (the scraper leaves with 0 and no file when it parsed no
\* item, the export logs its errors and leaves with 0).
StageExit ==
    /\ pipe.pc = "running"
    /\ pipe.stage # 2
    /\ \E code \in {0, 1}, wrote \in BOOLEAN :
          StageReturned(code, IF wrote THEN OutputFile(pipe.stage) ELSE {})

\* etl.py __main__: res = run_etl(); print(res).  The interpreter ends with
\* status 0 whatever res holds, and with status 1 when an exception left
\* run_etl.
etl_exit_status(pc) == IF pc = "raised" THEN 1 ELSE 0

\* The ETL process ends; scd2_apply has created current_db unless run_etl
\* returned before it.
EtlExit ==
    /\ pipe.pc = "running"
    /\ pipe.stage = 2
    /\ proc[Writer].pc \in {"done", "error", "raised"}
    /\ StageReturned(etl_exit_status(proc[Writer].pc),
                     IF proc[Writer].pc = "error" THEN {} ELSE {"current_db"})

\* The ETL process runs run_etl once.
EtlBegin(p) ==
    /\ pipe.pc = "running"
    /\ pipe.stage = 2
    /\ p = Writer
    /\ proc[p].pc = "idle"
    /\ Begin(p, ScenarioListings)

\* The ETL process finds a raw table that load_raw_as_df rejects.
EtlBadInput(p) ==
    /\ pipe.pc = "running"
    /\ pipe.stage = 2
    /\ proc[p].pc = "idle"
    /\ BeginBadInput(p)

NextPipeline ==
    \/ PipelineStart
    \/ RunStep
    \/ StageExit
    \/ EtlExit
    \/ \E p \in Procs : EtlBegin(p) \/ EtlBadInput(p) \/ Step(p) \/ RecordRunFail(p)

SpecPipeline == Init /\ [][NextPipeline]_vars

\* ------------------------------------------------------------------------
\* Properties
\* ------------------------------------------------------------------------
\* scd2_apply has returned its stats to run_etl.
ScdReturned(p) == proc[p].pc \in {"record", "attach", "done"}

RowsOf(tbl, h) == {i \in DOMAIN tbl : tbl[i].product_hash = h}

\* The positions of the rows appended to a table since it looked like tbl0.
Appended(tbl, tbl0) == (Len(tbl0) + 1)..Len(tbl)

AppendedOf(tbl, tbl0, h) == {i \in Appended(tbl, tbl0) : tbl[i].product_hash = h}

\* A tracked value as a trimmed string.
AsTrimmed(col, v) == IF col = "product_name" THEN Strip(v) ELSE v

\* The tracked attributes on which two rows differ, compared as trimmed strings.
DiffCols(a, b) ==
    {c \in TrackedSet : AsTrimmed(c, a.attrs[c]) # AsTrimmed(c, b.attrs[c])}

Closed(row, valid_to) == [row EXCEPT !.is_active = 0, !.valid_to = valid_to]

\* C1: after a run of scd2_apply that completed its discontinued pass, its
\* upsert pass and its duplicate-active guard, every product_hash has at most
\* one row with is_active = 1, also when statements of the run failed.
C1_AtMostOneActive ==
    \A p \in Procs :
        (ScdReturned(p) /\ proc[p].guard_ok) =>
            \A h \in ActiveHashes(cur) : Cardinality(ActiveOf(cur, h)) <= 1

\* The close of a changed key failed, its replacement was inserted, and the
\* guard closed the old version.
C1_Witness ==
    \E p \in Procs :
        /\ ScdReturned(p)
        /\ proc[p].guard_ok
        /\ \E i \in ActiveIds(proc[p].cur0) :
              /\ cur[i].product_hash \in proc[p].failed
              /\ cur[i].is_active = 0
              /\ \E j \in ActiveOf(cur, cur[i].product_hash) : j > Len(proc[p].cur0)

\* C2: a run on the snapshot of the completed run before it classifies every
\* snapshot row as unchanged, counts nothing else, writes no change-log entry
\* and leaves products_current and products_history as they were.
C2_Idempotent ==
    \A p \in Procs :
        (ScdReturned(p) /\ proc[p].prev = <<proc[p].input>>) =>
            /\ proc[p].stats = [stats0 EXCEPT !.unchanged = Len(proc[p].snapshot)]
            /\ Len(changes) = Len(proc[p].changes0)
            /\ cur = proc[p].cur0
            /\ hist = proc[p].hist0

\* The second run on a two-key snapshot that had closed a version before.
C2_Witness ==
    \E p \in Procs :
        /\ proc[p].pc = "done"
        /\ proc[p].prev = <<proc[p].input>>
        /\ Len(proc[p].input) = 2
        /\ Len(hist) >= 1

\* C3: for a key with an active row whose snapshot row differs on a tracked
\* attribute, the run closes that row (is_active = 0, valid_to = run
\* timestamp) and leaves exactly one new, active row of the key that carries
\* the snapshot's attributes, valid_from = run timestamp and valid_to NULL.
C3_ChangedTransition ==
    \A p \in Procs : ScdReturned(p) =>
        \A i \in ActiveIds(proc[p].cur0), k \in DOMAIN proc[p].snapshot :
            LET old == proc[p].cur0[i]
                s == proc[p].snapshot[k]
            IN  (old.product_hash = s.product_hash /\ DiffCols(s, old) # {}) =>
                    /\ cur[i] = Closed(old, proc[p].run_at)
                    /\ \E j \in Appended(cur, proc[p].cur0) :
                          /\ AppendedOf(cur, proc[p].cur0, s.product_hash) = {j}
                          /\ ActiveOf(cur, s.product_hash) = {j}
                          /\ cur[j].attrs = s.attrs
                          /\ cur[j].valid_from = proc[p].run_at
                          /\ cur[j].valid_to = NULL
                          /\ cur[i].valid_to = cur[j].valid_from

\* A run closed a version and opened its successor.
C3_Witness ==
    \E p \in Procs :
        /\ ScdReturned(p)
        /\ \E i \in ActiveIds(proc[p].cur0), k \in DOMAIN proc[p].snapshot :
              /\ proc[p].cur0[i].product_hash = proc[p].snapshot[k].product_hash
              /\ DiffCols(proc[p].snapshot[k], proc[p].cur0[i]) # {}
              /\ cur[i].is_active = 0

\* C4: the change-log entry of a changed key is a 'price_update' exactly when
\* price_raw is the only tracked attribute that differs, an 'attribute_update'
\* otherwise, and its details hold {old, new} for exactly the differing
\* attributes.
C4_ChangeClassification ==
    \A p \in Procs : ScdReturned(p) =>
        \A i \in ActiveIds(proc[p].cur0), k \in DOMAIN proc[p].snapshot :
            LET old == proc[p].cur0[i]
                s == proc[p].snapshot[k]
                D == DiffCols(s, old)
                E == AppendedOf(changes, proc[p].changes0, s.product_hash)
            IN  (old.product_hash = s.product_hash /\ D # {}) =>
                    /\ Cardinality(E) = 1
                    /\ \A e \in E :
                          /\ changes[e].change_type = "price_update"
                                <=> D = {"price_raw"}
                          /\ changes[e].change_type
                                \in {"price_update", "attribute_update"}
                          /\ DOMAIN changes[e].details = D
                          /\ \A c \in D : changes[e].details[c] =
                                [old |-> old.attrs[c], new |-> s.attrs[c]]

\* The price and the name of a listing changed in the same run.
C4_Witness ==
    \E p \in Procs :
        /\ ScdReturned(p)
        /\ \E e \in Appended(changes, proc[p].changes0) :
              /\ changes[e].change_type = "attribute_update"
              /\ "price_raw" \in DOMAIN changes[e].details

\* C5: for a key that was active before the run and is absent from the
\* snapshot, the run closes its row (is_active = 0, valid_to = run timestamp),
\* inserts no current row for it, appends exactly one history row, with
\* valid_to = run timestamp, and exactly one 'discontinued' change-log entry.
C5_DiscontinuedTransition ==
    \A p \in Procs : ScdReturned(p) =>
        \A i \in ActiveIds(proc[p].cur0) :
            LET old == proc[p].cur0[i]
                h == old.product_hash
                H == AppendedOf(hist, proc[p].hist0, h)
                E == AppendedOf(changes, proc[p].changes0, h)
            IN  h \notin SnapshotHashes(proc[p].snapshot) =>
                    /\ ActiveOf(cur, h) = {}
                    /\ cur[i] = Closed(old, proc[p].run_at)
                    /\ AppendedOf(cur, proc[p].cur0, h) = {}
                    /\ Cardinality(H) = 1
                    /\ \A j \in H : hist[j].valid_to = proc[p].run_at
                    /\ Cardinality(E) = 1
                    /\ \A e \in E : changes[e].change_type = "discontinued"

\* Both keys were discontinued by one run.
C5_Witness ==
    \E p \in Procs :
        /\ ScdReturned(p)
        /\ Cardinality(ActiveHashes(proc[p].cur0)) = 2
        /\ proc[p].snapshot = <<>>
        /\ proc[p].stats.discontinued = 2

\* C6: for a snapshot key with no active row before the run, the run inserts
\* exactly one row, active, with valid_from = run timestamp and valid_to NULL,
\* and writes exactly one 'new' change-log entry; the rows of the key that
\* were closed before stay as they were.
C6_NewTransition ==
    \A p \in Procs : ScdReturned(p) =>
        \A k \in DOMAIN proc[p].snapshot :
            LET s == proc[p].snapshot[k]
                h == s.product_hash
                N == AppendedOf(cur, proc[p].cur0, h)
                E == AppendedOf(changes, proc[p].changes0, h)
            IN  h \notin ActiveHashes(proc[p].cur0) =>
                    /\ Cardinality(N) = 1
                    /\ \A j \in N :
                          /\ cur[j].is_active = 1
                          /\ cur[j].valid_from = proc[p].run_at
                          /\ cur[j].valid_to = NULL
                          /\ cur[j].attrs = s.attrs
                    /\ Cardinality(E) = 1
                    /\ \A e \in E : changes[e].change_type = "new"
                    /\ \A i \in RowsOf(proc[p].cur0, h) :
                          cur[i] = proc[p].cur0[i] /\ cur[i].is_active = 0

\* A key that was discontinued earlier came back.
C6_Witness ==
    \E p \in Procs :
        /\ ScdReturned(p)
        /\ \E k \in DOMAIN proc[p].snapshot :
              /\ proc[p].snapshot[k].product_hash \notin ActiveHashes(proc[p].cur0)
              /\ RowsOf(proc[p].cur0, proc[p].snapshot[k].product_hash) # {}

\* The snapshot rows whose key is active and equal on every tracked attribute.
UnchangedRows(p) ==
    {k \in DOMAIN proc[p].snapshot :
        \E i \in ActiveIds(proc[p].cur0) :
            /\ proc[p].cur0[i].product_hash = proc[p].snapshot[k].product_hash
            /\ DiffCols(proc[p].snapshot[k], proc[p].cur0[i]) = {}}

\* C7: for a key whose snapshot row equals its active row on every tracked
\* attribute, compared as trimmed strings, the run changes no current row of
\* the key, appends no history row and no change-log entry for it, and counts
\* it once in 'unchanged'.
C7_UnchangedFrame ==
    \A p \in Procs : ScdReturned(p) =>
        /\ proc[p].stats.unchanged = Cardinality(UnchangedRows(p))
        /\ \A k \in UnchangedRows(p) :
              LET h == proc[p].snapshot[k].product_hash
              IN  /\ RowsOf(cur, h) = RowsOf(proc[p].cur0, h)
                  /\ \A i \in RowsOf(cur, h) : cur[i] = proc[p].cur0[i]
                  /\ AppendedOf(hist, proc[p].hist0, h) = {}
                  /\ AppendedOf(changes, proc[p].changes0, h) = {}

\* A listing came back with a name that differs in trailing whitespace only.
C7_Witness ==
    \E p \in Procs :
        /\ ScdReturned(p)
        /\ \E k \in UnchangedRows(p), i \in ActiveIds(cur) :
              /\ cur[i].product_hash = proc[p].snapshot[k].product_hash
              /\ cur[i].attrs["product_name"]
                    # proc[p].snapshot[k].attrs["product_name"]

\* C8: after a completed run every products_current row with is_active = 0
\* has a products_history row with the same product_hash, valid_from,
\* attribute values and valid_to.
C8_ArchivalComplete ==
    \A p \in Procs : ScdReturned(p) =>
        \A i \in DOMAIN cur :
            cur[i].is_active = 0 =>
                \E j \in DOMAIN hist :
                    /\ hist[j].product_hash = cur[i].product_hash
                    /\ hist[j].valid_from = cur[i].valid_from
                    /\ hist[j].attrs = cur[i].attrs
                    /\ hist[j].valid_to = cur[i].valid_to

\* Two or more active rows of one key, with different valid_from.
DuplicatedKeys(tbl) ==
    {h \in active_duplicates(tbl) :
        \A i, j \in ActiveOf(tbl, h) : i # j => tbl[i].valid_from # tbl[j].valid_from}

\* C9: a run against a current table in which a key has two or more active
\* rows with different valid_from completes and leaves exactly one active row
\* of the key, the one with the latest valid_from; the other formerly active
\* rows have is_active = 0 and valid_to = run timestamp.
C9_DuplicateRepair ==
    \A p \in Procs :
        \A h \in DuplicatedKeys(proc[p].cur0) :
            /\ proc[p].pc # "raised"
            /\ ScdReturned(p) =>
                  /\ ActiveOf(cur, h) = Latest(proc[p].cur0, h)
                  /\ \A i \in ActiveOf(proc[p].cur0, h) \ Latest(proc[p].cur0, h) :
                        cur[i] = Closed(proc[p].cur0[i], proc[p].run_at)

\* C10: a storage write that fails for one key during the discontinued pass
\* or the upsert pass is logged and the key skipped; scd2_apply goes on and
\* returns its stats, it does not raise.
C10_FailureIsolation ==
    \A p \in Procs : proc[p].failed # {} => proc[p].pc # "raised"

\* The positions of scd2_apply in its discontinued pass, in its upsert pass and
\* behind both.
DiscPcs == {"disc", "disc_hist", "disc_meta"}

UpsertPcs == {"upsert", "new_meta", "chg_insert", "chg_hist", "chg_meta"}

AfterPassesPcs == {"guard", "record", "attach", "done"}

\* The keys of the snapshot rows of a run.
SnapshotKeys(p) == {proc[p].snapshot[k].product_hash : k \in DOMAIN proc[p].snapshot}

\* The keys with an active row when the run started and no snapshot row.
AbsentKeys(p) == ActiveHashes(proc[p].cur0) \ SnapshotKeys(p)

\* C11: within one run of scd2_apply the discontinued keys are the keys active
\* in the table as it was before the first write of the run and absent from
\* the snapshot; while the discontinued pass is at work no write of the upsert
\* pass has happened, the upsert pass starts only when the discontinued pass
\* has handled all its keys, and no key is handled by both passes.
C11_PassOrdering ==
    \A p \in Procs :
        LET E == Appended(changes, proc[p].changes0)
            DiscE == {e \in E : changes[e].change_type = "discontinued"}
        IN  /\ proc[p].pc \in DiscPcs =>
                  /\ proc[p].todo \subseteq AbsentKeys(p)
                  /\ Len(cur) = Len(proc[p].cur0)
                  /\ DiscE = E
                  /\ \A j \in Appended(hist, proc[p].hist0) :
                        hist[j].product_hash \in AbsentKeys(p)
                  /\ proc[p].i = 1
            /\ proc[p].pc \in UpsertPcs \cup AfterPassesPcs =>
                  /\ proc[p].todo = {}
                  /\ {changes[e].product_hash : e \in DiscE} = AbsentKeys(p)
                  /\ \A e \in E \ DiscE : changes[e].product_hash \in SnapshotKeys(p)
                  /\ \A e1, e2 \in E :
                        (e1 < e2 /\ e2 \in DiscE) => e1 \in DiscE

\* One run discontinued a key and opened a row for another.
C11_Witness ==
    \E p \in Procs :
        /\ ScdReturned(p)
        /\ proc[p].stats.discontinued >= 1
        /\ proc[p].stats.new_products >= 1

\* C12: the change-log entries of a run are written with run_id NULL and keep
\* it while scd2_apply and the ledger insert are at work; once run_etl has
\* returned 'ok' no change-log entry has a NULL run_id, and every entry the
\* run wrote carries the run_id of the ledger row of that run.
C12_RunIdBackfill ==
    \A p \in Procs :
        LET E == Appended(changes, proc[p].changes0)
        IN  /\ proc[p].pc \in DiscPcs \cup UpsertPcs \cup {"guard", "record", "attach"} =>
                  \A e \in E : changes[e].run_id = NULL
            /\ proc[p].pc = "done" =>
                  /\ \A k \in DOMAIN changes : changes[k].run_id # NULL
                  /\ \A e \in E : changes[e].run_id = proc[p].run_id
                  /\ \E r \in DOMAIN runs :
                        /\ runs[r].run_id = proc[p].run_id
                        /\ runs[r].run_at = proc[p].run_at

\* A run that wrote two change-log entries returned 'ok'.
C12_Witness ==
    \E p \in Procs :
        /\ proc[p].pc = "done"
        /\ Len(changes) >= Len(proc[p].changes0) + 2

\* C13: every execution of run_etl, whatever its outcome, adds exactly one row
\* to etl_runs: when no execution is under way the ledger holds as many rows
\* as executions were started, with pairwise different run_ids.
C13_OneLedgerRowPerExecution ==
    (\A p \in Procs : Resting(p)) =>
        /\ Len(runs) = nruns
        /\ \A r1, r2 \in DOMAIN runs : r1 # r2 => runs[r1].run_id # runs[r2].run_id

\* C14: the change-log entries an execution found with run_id NULL, left by
\* an execution that stopped between scd2_apply and record_run_meta, keep
\* run_id NULL.
C14_OrphansKept ==
    \A p \in Procs :
        \A k \in DOMAIN proc[p].changes0 :
            proc[p].changes0[k].run_id = NULL => changes[k].run_id = NULL

\* C15: an execution on a raw table without product_name or without
\* price_raw leaves run_etl by a raised error, builds no snapshot and leaves
\* products_current, products_history, changes_log and etl_runs unchanged.
C15_InputContract ==
    \A p \in Procs :
        (proc[p].pc # "idle" /\ ~({"product_name", "price_raw"} \subseteq proc[p].columns)) =>
            /\ proc[p].pc = "raised"
            /\ proc[p].snapshot = <<>>
            /\ cur = proc[p].cur0
            /\ hist = proc[p].hist0
            /\ changes = proc[p].changes0
            /\ runs = proc[p].runs0

\* C16: the output of prepare_snapshot has at most one row per product_hash
\* and no row whose product_name is empty after trimming.
C16_SnapshotUnique ==
    \A p \in Procs : proc[p].pc = "snapshot" =>
        LET s == proc[p].snapshot
        IN  /\ \A i, j \in DOMAIN s :
                  i # j => s[i].product_hash # s[j].product_hash
            /\ \A i \in DOMAIN s :
                  \E c \in 1..Len(s[i].attrs["product_name"]) :
                      s[i].attrs["product_name"][c] # " "

\* A scrape of two records of one key and a record with a blank name gave a
\* snapshot of one row.
C16_Witness ==
    \E p \in Procs :
        /\ proc[p].pc = "snapshot"
        /\ Len(proc[p].input) = 3
        /\ Len(proc[p].snapshot) = 1
        /\ \E i, j, k \in DOMAIN proc[p].input :
              /\ i # j
              /\ HashAt(proc[p].input, i) = HashAt(proc[p].input, j)
              /\ proc[p].input[k].product_name = NameBlank

\* C17: every snapshot row carries the product_name, price_raw and raw_id of
\* the input record of its product_hash with the greatest scraped_at, the
\* first of them in input order when several share that scraped_at.
C17_LatestRecord ==
    \A p \in Procs : proc[p].pc = "snapshot" =>
        LET df == proc[p].input
            s == proc[p].snapshot
        IN  \A k \in DOMAIN s :
                \E i \in DOMAIN df :
                    /\ s[k].raw_id = i
                    /\ s[k].attrs["product_name"] = df[i].product_name
                    /\ s[k].attrs["price_raw"] = df[i].price_raw
                    /\ s[k].product_hash = compute_product_hash(df[i].product_name)
                    /\ \A j \in DOMAIN df :
                          compute_product_hash(df[j].product_name) = s[k].product_hash =>
                              /\ df[j].scraped_at <= df[i].scraped_at
                              /\ df[j].scraped_at = df[i].scraped_at => i <= j

\* Three records of one key: an older one first, then two that tie on the
\* latest scraped_at with different names.
C17_Witness ==
    \E p \in Procs :
        /\ proc[p].pc = "snapshot"
        /\ Len(proc[p].input) = 3
        /\ Len(proc[p].snapshot) = 1
        /\ proc[p].input[1].scraped_at < proc[p].input[2].scraped_at
        /\ proc[p].input[2].scraped_at = proc[p].input[3].scraped_at
        /\ proc[p].input[2].product_name # proc[p].input[3].product_name
        /\ proc[p].snapshot[1].raw_id = 2

\* A name without its punctuation characters.
WithoutPunct(s) == SelectSeq(s, LAMBDA c : IsAlnum(c) \/ IsSpace(c))

\* Two names that differ only in letter case, only in leading, trailing or
\* repeated whitespace, or only in the presence of punctuation characters.
DifferOnlyInForm(s, t) ==
    \/ LowerStr(s) = LowerStr(t)
    \/ CollapseWs(Strip(s)) = CollapseWs(Strip(t))
    \/ WithoutPunct(s) = WithoutPunct(t)

\* The text that compute_product_hash hands to sha256.
HashedText(name) == compute_product_hash(name)[2]

\* C18: two names of a scrape that differ only in letter case, in leading,
\* trailing or repeated whitespace, or in the presence of punctuation get the
\* same product_hash and at most one snapshot row; the text that is hashed
\* is lowercase, trimmed, has no two spaces in a row and holds only
\* alphanumerics and spaces.
C18_KeyNormalization ==
    \A p \in Procs : proc[p].pc = "snapshot" =>
        LET df == proc[p].input
            s == proc[p].snapshot
        IN  /\ \A i, j \in DOMAIN df :
                  DifferOnlyInForm(df[i].product_name, df[j].product_name) =>
                      /\ HashAt(df, i) = HashAt(df, j)
                      /\ Cardinality({k \in DOMAIN s :
                              s[k].product_hash \in {HashAt(df, i), HashAt(df, j)}}) <= 1
            /\ \A i \in DOMAIN df :
                  LET t == HashedText(df[i].product_name)
                  IN  /\ LowerStr(t) = t
                      /\ Strip(t) = t
                      /\ CollapseWs(t) = t
                      /\ \A c \in DOMAIN t : IsAlnum(t[c]) \/ IsSpace(t[c])

\* C19: when two executions ran scd2_apply against the same tables with
\* their statements interleaved and both have returned from it, their guard
\* passes included, every product_hash has at most one active row.
C19_ConcurrentSelfHealing ==
    (\A p \in Procs : ScdReturned(p)) =>
        \A h \in ActiveHashes(cur) : Cardinality(ActiveOf(cur, h)) <= 1

\* Both executions started from the same table, both opened a row for the
\* same key, and a guard closed one of the two.
C19_Witness ==
    /\ \A p \in Procs : ScdReturned(p) /\ proc[p].cur0 = proc[Writer].cur0
    /\ \E i, j \in DOMAIN cur :
          /\ i # j
          /\ i > Len(proc[Writer].cur0)
          /\ j > Len(proc[Writer].cur0)
          /\ cur[i].product_hash = cur[j].product_hash
          /\ cur[i].is_active = 0
          /\ cur[j].is_active = 1

\* A sequential execution has left the tables from which the two processes
\* of SpecConc start.
AfterFirstRun ==
    /\ \E s \in ConcFirstRuns : Len(s) = 2 /\ FirstRunTables(s)
    /\ \A p \in Procs : Resting(p)

\* C20: no step of the ETL deletes a row of products_current or of
\* products_history: every row of the two tables is still there after the
\* step, under its product_id or history_id, with its product_hash,
\* valid_from and attributes, and a history row is never changed at all.
C20_NoDeletion ==
    [][/\ DOMAIN cur \subseteq DOMAIN cur'
       /\ \A i \in DOMAIN cur :
             /\ cur'[i].product_hash = cur[i].product_hash
             /\ cur'[i].valid_from = cur[i].valid_from
             /\ cur'[i].attrs = cur[i].attrs
       /\ DOMAIN hist \subseteq DOMAIN hist'
       /\ \A j \in DOMAIN hist : hist'[j] = hist[j]]_vars

\* An execution closed a row and archived it: the row is still in
\* products_current under its product_id, and the history rows the execution
\* found are still there.
C20_Witness ==
    \E p \in Procs :
        /\ proc[p].pc = "done"
        /\ Len(hist) > Len(proc[p].hist0)
        /\ \E i \in DOMAIN proc[p].cur0 :
              /\ proc[p].cur0[i].is_active = 1
              /\ cur[i] = Closed(proc[p].cur0[i], proc[p].run_at)

\* The values every extractor has returned for the argument.
ExtractedValue(p, f) == proc[p].extracted[f].value

\* C21: for every argument, the empty string, a name no pattern matches and
\* a value that is no string or is null included, each of the nine extractors
\* returns a string that is not empty and never raises.
C21_ExtractorTotality ==
    \A p \in Procs : proc[p].pc = "extracted" =>
        \A f \in Extractors :
            /\ ~proc[p].extracted[f].raised
            /\ ExtractedValue(p, f) \notin {"", "None"}

\* C22: the execution on the single raw record ("ASUS ROG Strix G513QY 16GB
\* 512GB SSD", 25000000) against an empty current table writes exactly one
\* change-log entry, of type 'new', and leaves exactly one active row, whose
\* brand is "Asus", series "ROG Strix", ram "16GB" and storage "512GB".
C22_Scenario1 ==
    \A p \in Procs :
        (/\ ScdReturned(p)
         /\ proc[p].input = <<<<NameScenario1, 25000000>>>>
         /\ proc[p].cur0 = <<>>) =>
            /\ Len(changes) = Len(proc[p].changes0) + 1
            /\ changes[Len(changes)].change_type = "new"
            /\ Cardinality(ActiveIds(cur)) = 1
            /\ \A i \in ActiveIds(cur) :
                  /\ cur[i].attrs["brand"] = "Asus"
                  /\ cur[i].attrs["series"] = "ROG Strix"
                  /\ cur[i].attrs["ram"] = "16GB"
                  /\ cur[i].attrs["storage"] = "512GB"

\* "<n>GB" for the conventional sizes, and for the totals from 1 to 256 that
\* the sizes and the multiplier of the model's words give.
ConventionalRam == {"2GB", "4GB", "8GB", "16GB", "32GB", "64GB", "128GB"}

RamUpTo256 == ConventionalRam \cup {"1GB", "12GB", "24GB", "256GB"}

\* C23 as stated: in the keyword tier and in the fallback tier extract_ram
\* accepts a total only if it is 2, 4, 8, 16, 32, 64 or 128 GB; the result is
\* "Unknown RAM" or "<n>GB" with n one of them.
C23_RamAllowedSet ==
    \A p \in Procs : proc[p].pc = "extracted" =>
        ExtractedValue(p, "extract_ram") \in {"Unknown RAM"} \cup ConventionalRam

\* C23 amended: the keyword tier accepts every total from 1 to 256 GB, only
\* the fallback tier is held to 2, 4, 8, 16, 32, 64 and 128 GB: the result is
\* "Unknown RAM" or "<n>GB" with 1 <= n <= 256, and a result outside the
\* conventional sizes was read by a keyword pattern.
C23_RamAcceptedTotals ==
    \A p \in Procs : proc[p].pc = "extracted" =>
        LET v == ExtractedValue(p, "extract_ram")
            name_upper == UpperStr(Tokens(proc[p].input.text))
        IN  /\ v \in {"Unknown RAM"} \cup RamUpTo256
            /\ v \notin {"Unknown RAM"} \cup ConventionalRam =>
                  \E k \in 1..12 : ram_patterns(k, name_upper) # {}

\* A keyword pattern read 2 x 12 GB.
C23_Witness ==
    \E p \in Procs :
        /\ proc[p].pc = "extracted"
        /\ ExtractedValue(p, "extract_ram") = "24GB"

\* C24: a snapshot row whose name differs from the name of the active row of
\* the same product_hash is matched to that row: the run writes neither a
\* 'new' nor a 'discontinued' entry for the key, and the key's version chain
\* goes on: the active row stays as it was, or it is closed at the run
\* timestamp and the one active row of the key starts at that timestamp.
C24_IdentityStable ==
    \A p \in Procs : ScdReturned(p) =>
        \A k \in DOMAIN proc[p].snapshot, i \in ActiveIds(proc[p].cur0) :
            LET s == proc[p].snapshot[k]
                h == s.product_hash
                old == proc[p].cur0[i]
            IN  (old.product_hash = h
                 /\ old.attrs["product_name"] # s.attrs["product_name"]) =>
                    /\ \A e \in AppendedOf(changes, proc[p].changes0, h) :
                          changes[e].change_type \notin {"new", "discontinued"}
                    /\ Cardinality(ActiveOf(cur, h)) = 1
                    /\ \/ cur[i] = old
                       \/ /\ cur[i] = Closed(old, proc[p].run_at)
                          /\ \A j \in ActiveOf(cur, h) :
                                /\ cur[j].valid_from = proc[p].run_at
                                /\ cur[j].attrs = s.attrs

\* A listing came back in upper case and a run matched it to its active row.
C24_Witness ==
    \E p \in Procs :
        /\ ScdReturned(p)
        /\ \E k \in DOMAIN proc[p].snapshot, i \in ActiveIds(proc[p].cur0) :
              /\ proc[p].cur0[i].product_hash = proc[p].snapshot[k].product_hash
              /\ proc[p].cur0[i].attrs["product_name"] = NameA
              /\ proc[p].snapshot[k].attrs["product_name"] = NameAUpper

\* The file that must exist before a stage is started.
PrerequisiteOf(k) ==
    CASE k = 2 -> "raw_db" [] k = 3 -> "current_db" [] OTHER -> "csv_export"

\* C25: main.py starts the stages in the order scraper, ETL, export, seeder;
\* a stage after the first is started only when the stage before it has left
\* with status 0 and its prerequisite file exists; once a stage has left with
\* another status or a prerequisite is missing, no later stage is started
\* and the process ends with status 1.
C25_StageOrdering ==
    /\ \A j \in DOMAIN pipe.started : pipe.started[j] = j
    /\ Len(pipe.codes) <= Len(pipe.started)
    /\ \A j \in DOMAIN pipe.started :
          j > 1 => /\ pipe.codes[j - 1] = 0
                   /\ PrerequisiteOf(j) \in pipe.files
    /\ \A j \in DOMAIN pipe.codes :
          pipe.codes[j] # 0 => /\ j = Len(pipe.started)
                               /\ pipe.pc = "exited"
                               /\ pipe.exit_code = 1
    /\ pipe.pc = "exited" =>
          IF Len(pipe.codes) = 4 /\ \A j \in DOMAIN pipe.codes : pipe.codes[j] = 0
          THEN pipe.exit_code = 0
          ELSE pipe.exit_code = 1

\* The scraper left with status 0 but wrote no raw_db: the ETL was not
\* started and main.py ended with status 1.
C25_Witness ==
    /\ pipe.pc = "exited"
    /\ pipe.started = <<1>>
    /\ pipe.codes = <<0>>
    /\ pipe.exit_code = 1

\* C29: when run_etl could not load the raw data and returned status 'error',
\* main.py takes the ETL stage as failed: the stage's status is not 0, the
\* export and the seeder are not started and main.py ends with status 1.
C29_FailedLoadStops ==
    (/\ proc[Writer].pc = "error"
     /\ Len(pipe.codes) >= 2) =>
        /\ pipe.codes[2] # 0
        /\ Len(pipe.started) = 2
        /\ pipe.pc = "exited"
        /\ pipe.exit_code = 1

\* C26: in every state that executions of etl.py reach from empty tables,
\* every row of products_current is active exactly when its valid_to is NULL,
\* and every row of products_history is inactive and has a valid_to.
C26_LifecycleCoupling ==
    /\ \A i \in DOMAIN cur : (cur[i].is_active = 1) <=> (cur[i].valid_to = NULL)
    /\ \A j \in DOMAIN hist : hist[j].is_active = 0 /\ hist[j].valid_to # NULL

\* A closed version, its archived copy and an open version stand side by
\* side.
C26_Witness ==
    /\ \E i \in DOMAIN cur : cur[i].is_active = 0
    /\ \E i \in DOMAIN cur : cur[i].is_active = 1
    /\ Len(hist) >= 1

\* C27: a row of products_current that has is_active = 0 is the same row after
\* every step of this and of every later sequential run (not reactivated,
\* valid_to and attributes as they were), and a row of products_history is
\* the same row after every step.
C27_ClosedImmutable ==
    [][/\ \A i \in DOMAIN cur :
             cur[i].is_active = 0 => i \in DOMAIN cur' /\ cur'[i] = cur[i]
       /\ \A j \in DOMAIN hist : j \in DOMAIN hist' /\ hist'[j] = hist[j]]_vars

\* A run found a closed version of a key, wrote a further version of that key
\* at a later time and left the closed one as it was.
C27_Witness ==
    \E p \in Procs :
        /\ proc[p].pc = "done"
        /\ \E i \in DOMAIN proc[p].cur0, j \in Appended(cur, proc[p].cur0) :
              /\ proc[p].cur0[i].is_active = 0
              /\ proc[p].cur0[i].valid_to < proc[p].run_at
              /\ cur[j].product_hash = proc[p].cur0[i].product_hash
              /\ cur[i] = proc[p].cur0[i]

\* The change-log entries of one type written since the log looked like log0.
LoggedOfType(log, log0, type) ==
    {k \in Appended(log, log0) : log[k].change_type = type}

\* C28: when scd2_apply has returned, also after a write for some key failed
\* and was skipped, new_products + price_updates + attribute_updates +
\* unchanged is the number of snapshot rows, discontinued is the number of
\* keys active before the run and absent from the snapshot, and each of the
\* four counters equals the number of change-log entries of its type written
\* during the run.
C28_StatsAccounting ==
    \A p \in Procs :
        ScdReturned(p) =>
            LET s == proc[p].stats
                logged(type) ==
                    Cardinality(LoggedOfType(changes, proc[p].changes0, type))
            IN  /\ s.new_products + s.price_updates + s.attribute_updates
                       + s.unchanged = Len(proc[p].snapshot)
                /\ s.discontinued =
                       Cardinality(ActiveHashes(proc[p].cur0)
                                       \ SnapshotHashes(proc[p].snapshot))
                /\ logged("new") = s.new_products
                /\ logged("price_update") = s.price_updates
                /\ logged("attribute_update") = s.attribute_updates
                /\ logged("discontinued") = s.discontinued

\* C30: every raw record whose product_name is not empty after trimming has
\* a row with its product_hash in the output of prepare_snapshot, whatever
\* other record of its group was taken as the group's first.
C30_SnapshotCompleteness ==
    \A p \in Procs :
        proc[p].pc = "snapshot" =>
            \A i \in DOMAIN proc[p].input :
                Strip(proc[p].input[i].product_name) # <<>> =>
                    compute_product_hash(proc[p].input[i].product_name)
                        \in SnapshotHashes(proc[p].snapshot)

====
